---- MODULE Spec2Model ----
(***************************************************************************)
(* CheetahExpress: the dispatch pipeline (process_order), the sequential   *)
(* dispatch loop and the per-candidate call session, in the three builds   *)
(* the repository holds:                                                   *)
(*   "polling": agents/orchestrator.py + compliance.py + routing.py +      *)
(*              ranking.py + voice_dispatch.py + db/audit_logger.py        *)
(*   "local"  : agents/orchestrator_agent.py (use_mock = False) +          *)
(*              compliance_agent.py + routing_agent.py + ranking_agent.py  *)
(*              + voice_dispatch_agent.py + database/neo4j_client.py       *)
(*   "mock"   : agents/orchestrator_agent.py (use_mock = True) +           *)
(*              mock_routing_agent.py + mock_voice_agent.py                *)
(* One behaviour is one run of process_order on one order.                 *)
(*                                                                         *)
(* Conventions: text is a sequence of one-character strings, so that the   *)
(* keyword tests are the substring tests of the code; a driver id is a     *)
(* positive integer and 0 stands for None; durations are whole seconds or  *)
(* whole minutes; scores are integers in hundredths (ranking.py) or tenths *)
(* (ranking_agent.py) of a point.                                          *)
(***************************************************************************)
EXTENDS Integers, Sequences, FiniteSets, TLC

\* ------------------------------------------------------------------ bounds
\* Largest number of drivers the directory returns in a run.
MaxDrivers == 2
\* Requests the hosting service serves at the same time.
MaxRuns == 2

\* ------------------------------------------------------- program constants
CALL_POLL_INTERVAL_S == 3
CALL_TIMEOUT_S == 120
MAX_REPEATS == 2
LICENSE_EXPIRY_BUFFER_DAYS == 14
MIN_KM_BUDGET_REMAINING == 20
MAX_ETA_MINUTES == 120
MAX_KM_BUDGET == 300
MAX_LICENSE_BUFFER_DAYS == 365
max_km_per_day == 300
max_hours_per_day == 10
min_license_buffer_days == 14
min_km_remaining == 20
min_hours_remaining == 1
shift_start_default == 6
shift_end_default == 18

\* ---------------------------------------------------------------- text
ACCEPT_KEYWORDS ==
    { <<"y", "e", "s">>
    , <<"y", "e", "a", "h">>
    , <<"y", "e", "p">>
    , <<"s", "u", "r", "e">>
    , <<"a", "c", "c", "e", "p", "t">>
    , <<"o", "k", "a", "y">>
    , <<"o", "k">>
    , <<"w", "i", "l", "l", " ", "d", "o">>
    , <<"a", "b", "s", "o", "l", "u", "t", "e", "l", "y">>
    , <<"a", "f", "f", "i", "r", "m", "a", "t", "i", "v", "e">>
    , <<"i", " ", "w", "i", "l", "l">>
    , <<"i", " ", "c", "a", "n">>
    }

DECLINE_KEYWORDS ==
    { <<"n", "o">>
    , <<"n", "o", "p", "e">>
    , <<"n", "a", "h">>
    , <<"d", "e", "c", "l", "i", "n", "e">>
    , <<"c", "a", "n", "'", "t">>
    , <<"c", "a", "n", "n", "o", "t">>
    , <<"w", "o", "n", "'", "t">>
    , <<"b", "u", "s", "y">>
    , <<"u", "n", "a", "v", "a", "i", "l", "a", "b", "l", "e">>
    , <<"n", "e", "g", "a", "t", "i", "v", "e">>
    , <<"n", "o", "t", " ", "a", "v", "a", "i", "l", "a", "b", "l", "e">>
    }

REPEAT_KEYWORDS ==
    { <<"r", "e", "p", "e", "a", "t">>
    , <<"a", "g", "a", "i", "n">>
    , <<"s", "a", "y", " ", "a", "g", "a", "i", "n">>
    , <<"c", "o", "m", "e", " ", "a", "g", "a", "i", "n">>
    , <<"p", "a", "r", "d", "o", "n">>
    , <<"d", "i", "d", "n", "'", "t", " ", "c", "a", "t", "c", "h">>
    , <<"w", "h", "a", "t", " ", "w", "a", "s", " ", "t", "h", "a", "t">>
    , <<"o", "n", "e", " ", "m", "o", "r", "e", " ", "t", "i", "m", "e">>
    }

\* What the transcription collaborator may return as the "text" of a round:
\* nothing, blanks, "Yes", "no", "hmm", "pardon", "OK say again".
Transcripts ==
    { <<>>
    , <<" ", " ">>
    , <<"Y", "e", "s">>
    , <<"n", "o">>
    , <<"h", "m", "m">>
    , <<"p", "a", "r", "d", "o", "n">>
    , <<"O", "K", " ", "s", "a", "y", " ", "a", "g", "a", "i", "n">>
    }

\* str.lower on one character (the upper-case letters the transcripts use).
LowerChar(c) ==
    CASE c = "Y" -> "y"
      [] c = "O" -> "o"
      [] c = "K" -> "k"
      [] c = "N" -> "n"
      [] c = "I" -> "i"
      [] c = "B" -> "b"
      [] OTHER -> c

\* str.lower
Lower(s) == [i \in 1..Len(s) |-> LowerChar(s[i])]

IsSpace(c) == c = " "

\* Variant: the text as it is.
Strip_none(s) == s

\* str.strip: the text without its leading and trailing blanks.
Strip(s) ==
    LET nb == {i \in 1..Len(s) : ~IsSpace(s[i])}
    IN  IF nb = {} THEN <<>>
        ELSE LET lo == CHOOSE i \in nb : \A j \in nb : i <= j
                 hi == CHOOSE i \in nb : \A j \in nb : i >= j
             IN  SubSeq(s, lo, hi)

\* kw in s
Contains(s, kw) ==
    \E i \in 0..(Len(s) - Len(kw)) : SubSeq(s, i + 1, i + Len(kw)) = kw

\* any(kw in transcript.lower() for kw in REPEAT_KEYWORDS)
_wants_repeat(t) == \E kw \in REPEAT_KEYWORDS : Contains(Lower(t), kw)

\* Variant: the decline keywords are looked for first.
_parse_outcome_decline_first(t) ==
    IF Strip(t) = <<>>
    THEN [outcome |-> "declined", decline_reason |-> "No response received"]
    ELSE IF \E kw \in DECLINE_KEYWORDS : Contains(Lower(t), kw)
    THEN [outcome |-> "declined", decline_reason |-> "transcript"]
    ELSE IF \E kw \in ACCEPT_KEYWORDS : Contains(Lower(t), kw)
    THEN [outcome |-> "accepted", decline_reason |-> "None"]
    ELSE [outcome |-> "declined", decline_reason |-> "No clear response received"]

\* _parse_outcome: the outcome and the decline reason of a final transcript.
_parse_outcome(t) ==
    IF Strip(t) = <<>>
    THEN [outcome |-> "declined", decline_reason |-> "No response received"]
    ELSE IF \E kw \in ACCEPT_KEYWORDS : Contains(Lower(t), kw)
    THEN [outcome |-> "accepted", decline_reason |-> "None"]
    ELSE IF \E kw \in DECLINE_KEYWORDS : Contains(Lower(t), kw)
    THEN [outcome |-> "declined", decline_reason |-> "transcript"]
    ELSE [outcome |-> "declined", decline_reason |-> "No clear response received"]

\* ---------------------------------------------------------------- data
\* The order of the run. Times of day are minutes after midnight: the window
\* is 10:00-11:00 (pickup_by = time_window.start, deliver_by = time_window.end)
\* and the routing stage runs at 09:40.
TheOrder ==
    [ vehicle_type |-> "van", pickup_by |-> 600, deliver_by |-> 660, now |-> 580 ]

\* What the directory and the workload store hold about a driver.
Profiles ==
    { [ license_days |-> 200, vehicle_type |-> "van", km_budget_remaining_today |-> 150,
        shift_start |-> 480, shift_end |-> 1200, km_today |-> 0, hours_today |-> 0 ]
    , [ license_days |-> 14, vehicle_type |-> "van", km_budget_remaining_today |-> 250,
        shift_start |-> 480, shift_end |-> 1200, km_today |-> 100, hours_today |-> 2 ]
    , [ license_days |-> 400, vehicle_type |-> "car", km_budget_remaining_today |-> 300,
        shift_start |-> 480, shift_end |-> 1200, km_today |-> 0, hours_today |-> 0 ]
    }

\* Driver / DriverInfo: the record of driver i, with the profile's fields.
MkDriver(i, p) ==
    [ driver_id |-> i, license_days |-> p.license_days, vehicle_type |-> p.vehicle_type,
      km_budget_remaining_today |-> p.km_budget_remaining_today,
      shift_start |-> p.shift_start, shift_end |-> p.shift_end,
      km_today |-> p.km_today, hours_today |-> p.hours_today ]

\* The driver pools a directory may return: ids 1..n in directory order.
Pools ==
    UNION { { [i \in 1..n |-> MkDriver(i, f[i])] : f \in [1..n -> Profiles] } :
            n \in 0..MaxDrivers }

\* What the routing collaborator may answer for one driver-to-pickup pair:
\* status and duration in seconds (0 when there is no route).
RouteElements ==
    { [status |-> "ZERO_RESULTS", duration |-> 0]
    , [status |-> "OK", duration |-> 600]
    , [status |-> "OK", duration |-> 2400]
    , [status |-> "OK", duration |-> 7200]
    }

\* The collaborator's answer for the pickup-to-dropoff pair.
Leg2Element == [status |-> "OK", duration |-> 600]

Min(a, b) == IF a <= b THEN a ELSE b

\* [x for x in s if Test(x)]
RECURSIVE SelectSeqBy(_, _)
SelectSeqBy(s, keep) ==
    IF s = <<>> THEN <<>>
    ELSE (IF Head(s).driver_id \in keep THEN <<Head(s)>> ELSE <<>>)
         \o SelectSeqBy(Tail(s), keep)

Ids(s) == {s[i].driver_id : i \in 1..Len(s)}

\* next(x for x in s if x.driver_id == id), for an id that s holds
ById(s, id) == s[CHOOSE i \in 1..Len(s) : s[i].driver_id = id /\ \A j \in 1..(i - 1) : s[j].driver_id # id]

\* ----------------------------------------------------- eligibility filter
\* str.lower on a vehicle type
LowerVehicle(v) ==
    CASE v = "Van" -> "van"
      [] v = "Car" -> "car"
      [] OTHER -> v

\* Variant: a violated rule leaves no reason behind.
Reason_dropped(ok, text) == <<>>

\* `if not ok: failures.append(text)`: what one rule adds to the list of reasons
Reason(ok, text) == IF ok THEN <<>> ELSE <<text>>

\* compliance.py ComplianceAgent._check_driver
_check_driver(driver, order) ==
    LET days_remaining  == driver.license_days
        license_ok      == days_remaining >= LICENSE_EXPIRY_BUFFER_DAYS
        vehicle_match   == LowerVehicle(driver.vehicle_type) = LowerVehicle(order.vehicle_type)
        km_budget_ok    == driver.km_budget_remaining_today >= MIN_KM_BUDGET_REMAINING
        shift_window_ok == /\ driver.shift_start <= order.pickup_by
                           /\ driver.shift_end >= order.deliver_by
        failures == Reason(license_ok, "license") \o Reason(vehicle_match, "vehicle")
                    \o Reason(km_budget_ok, "km_budget") \o Reason(shift_window_ok, "shift")
    IN  [ driver_id |-> driver.driver_id, eligible |-> Len(failures) = 0,
          failure_reasons |-> failures, license_days_remaining |-> days_remaining,
          vehicle_match |-> vehicle_match, km_budget_ok |-> km_budget_ok,
          shift_window_ok |-> shift_window_ok ]

\* neo4j_client.py Neo4jClient.get_driver_workload_today: zeros without a database
get_driver_workload_today(driver, db) ==
    IF ~db THEN [km_today |-> 0, hours_today |-> 0]
    ELSE [km_today |-> driver.km_today, hours_today |-> driver.hours_today]

\* compliance_agent.py ComplianceAgent._check_driver_compliance_in_memory,
\* called with delivery_time = order.time_window.start
_check_driver_compliance_in_memory(driver, order, db) ==
    LET days_until_expiry == driver.license_days
        license_valid     == days_until_expiry > min_license_buffer_days
        vehicle_type_match == driver.vehicle_type = order.vehicle_type
        workload          == get_driver_workload_today(driver, db)
        remaining_km      == max_km_per_day - workload.km_today
        km_budget_available == remaining_km > min_km_remaining
        remaining_hours   == max_hours_per_day - workload.hours_today
        hours_budget_available == remaining_hours > min_hours_remaining
        delivery_hour     == order.pickup_by \div 60
        shift_covers      == shift_start_default <= delivery_hour /\ delivery_hour < shift_end_default
        reasons == Reason(license_valid, "license") \o Reason(vehicle_type_match, "vehicle")
                   \o Reason(km_budget_available, "km_budget")
                   \o Reason(hours_budget_available, "hours_budget")
                   \o Reason(shift_covers, "shift")
        is_compliant == /\ license_valid /\ vehicle_type_match /\ km_budget_available
                        /\ hours_budget_available /\ shift_covers
    IN  [ driver_id |-> driver.driver_id, is_compliant |-> is_compliant,
          reasons |-> IF is_compliant THEN <<"All compliance checks passed">> ELSE reasons,
          license_valid |-> license_valid, vehicle_type_match |-> vehicle_type_match,
          km_budget_available |-> km_budget_available,
          hours_budget_available |-> hours_budget_available,
          shift_window_covers_delivery |-> shift_covers ]

\* ----------------------------------------------------- feasibility router
\* routing.py RoutingAgent.compute_etas, lines 63-90: the results for the
\* drivers whose element is OK, in input order. elements[i] answers drivers[i].
RECURSIVE compute_etas_from(_, _, _, _)
compute_etas_from(drivers, elements, leg2, order) ==
    IF drivers = <<>> THEN <<>>
    ELSE LET element == Head(elements)
             leg1_duration_s == element.duration
             total_trip_s == leg1_duration_s + leg2.duration
             seconds_until_deliver_by == (order.deliver_by - order.now) * 60
             rest == compute_etas_from(Tail(drivers), Tail(elements), leg2, order)
         IN  IF element.status # "OK" THEN rest
             ELSE << [ driver_id |-> Head(drivers).driver_id,
                       eta_to_pickup_minutes |-> leg1_duration_s \div 60,
                       total_trip_time_minutes |-> total_trip_s \div 60,
                       fits_sla |-> total_trip_s <= seconds_until_deliver_by ] >> \o rest

\* routing_agent.py RoutingAgent._calculate_single_route, lines 37-127, and
\* calculate_routes: a result for every driver whose element is OK and whose
\* pickup-to-dropoff query answered; any exception gives None, which is dropped.
\* mock_routing_agent.py _calculate_mock_route tests fits_sla the same way.
RECURSIVE calculate_routes(_, _, _, _)
calculate_routes(drivers, elements, leg2, order) ==
    IF drivers = <<>> THEN <<>>
    ELSE LET element == Head(elements)
             eta_to_pickup_minutes == element.duration \div 60
             eta_pickup_to_dropoff_minutes == leg2.duration \div 60
             total_trip_time_minutes == eta_to_pickup_minutes + eta_pickup_to_dropoff_minutes
             time_window_minutes == order.deliver_by - order.pickup_by
             rest == calculate_routes(Tail(drivers), Tail(elements), leg2, order)
         IN  IF element.status # "OK" \/ element.leg2_status # "OK" THEN rest
             ELSE << [ driver_id |-> Head(drivers).driver_id,
                       eta_to_pickup_minutes |-> eta_to_pickup_minutes,
                       total_trip_time_minutes |-> total_trip_time_minutes,
                       fits_sla |-> element.duration + leg2.duration
                                        <= time_window_minutes * 60 ] >> \o rest

\* Variant: every route is kept.
filter_sla_compliant_routes_all(rs) == rs

\* filter_sla_compliant_routes: [r for r in routing_results if r.fits_sla]
RECURSIVE filter_sla_compliant_routes(_)
filter_sla_compliant_routes(rs) ==
    IF rs = <<>> THEN <<>>
    ELSE (IF Head(rs).fits_sla THEN <<Head(rs)>> ELSE <<>>)
         \o filter_sla_compliant_routes(Tail(rs))

\* The external routing queries one feasibility computation issues.
\* routing.py: two for a non-empty list. routing_agent.py: per driver one, and a
\* second when the first pair is OK. mock_routing_agent.py: none.
RoutingQueries(v, elements) ==
    CASE v = "polling" -> IF Len(elements) = 0 THEN 0 ELSE 2
      [] v = "local"   -> Len(elements)
                          + Cardinality({i \in 1..Len(elements) : elements[i].status = "OK"})
      [] OTHER         -> 0

\* ------------------------------------------------------------ ranking
\* list.sort(key = score, reverse = True): stable, so equal scores keep their order.
\* Variant: an equal score goes in front of the ones already placed.
InsertDesc_unstable(sorted, x) ==
    LET k == Cardinality({i \in 1..Len(sorted) : sorted[i].score > x.score})
    IN  SubSeq(sorted, 1, k) \o <<x>> \o SubSeq(sorted, k + 1, Len(sorted))

InsertDesc(sorted, x) ==
    LET k == Cardinality({i \in 1..Len(sorted) : sorted[i].score >= x.score})
    IN  SubSeq(sorted, 1, k) \o <<x>> \o SubSeq(sorted, k + 1, Len(sorted))

RECURSIVE SortDescFrom(_, _)
SortDescFrom(acc, s) ==
    IF s = <<>> THEN acc ELSE SortDescFrom(InsertDesc(acc, Head(s)), Tail(s))

SortDesc(s) == SortDescFrom(<<>>, s)

\* Variant: the ETA term grows with the ETA.
_score_eta_unturned(driver, routing) ==
    LET eta  == Min(routing.eta_to_pickup_minutes, MAX_ETA_MINUTES)
        km   == Min(driver.km_budget_remaining_today, MAX_KM_BUDGET)
        days == Min(driver.license_days, MAX_LICENSE_BUFFER_DAYS)
        num  == 5000 * eta * 365 + 2500 * km * 146 + 2500 * days * 120
    IN  (2 * num + 43800) \div (2 * 43800)

\* ranking.py RankingEngine._score before `round(..., 2)`: the weighted sum
\* times 100, over the denominator 438 (an exact integer).
_score_exact(driver, routing) ==
    LET eta  == Min(routing.eta_to_pickup_minutes, MAX_ETA_MINUTES)
        km   == Min(driver.km_budget_remaining_today, MAX_KM_BUDGET)
        days == Min(driver.license_days, MAX_LICENSE_BUFFER_DAYS)
    IN  5000 * (MAX_ETA_MINUTES - eta) * 365 + 2500 * km * 146 + 2500 * days * 120

\* ranking.py RankingEngine._score, in hundredths of a point:
\* round((0.50 * eta_norm + 0.25 * km_norm + 0.25 * license_norm) * 100, 2)
_score(driver, routing) ==
    LET eta  == Min(routing.eta_to_pickup_minutes, MAX_ETA_MINUTES)
        km   == Min(driver.km_budget_remaining_today, MAX_KM_BUDGET)
        days == Min(driver.license_days, MAX_LICENSE_BUFFER_DAYS)
        \* the three terms over the common denominator 120 * 300 * 365 / 300 = 43800
        num  == 5000 * (MAX_ETA_MINUTES - eta) * 365 + 2500 * km * 146 + 2500 * days * 120
    IN  (2 * num + 43800) \div (2 * 43800)

\* The gate of ranking.py lines 51-54: a candidate needs an eligible compliance
\* result and a routing result that fits the SLA.
\* Variant: the ranker keeps a driver whose trip does not fit the SLA.
RankGate_no_sla(compliance, routing) == compliance.eligible

RankGate(compliance, routing) == compliance.eligible /\ routing.fits_sla

\* ranking.py RankingEngine.rank, lines 43-69: the candidates before the sort.
RECURSIVE rank_candidates(_, _, _)
rank_candidates(drivers, compliance_results, routing_results) ==
    IF drivers = <<>> THEN <<>>
    ELSE LET driver == Head(drivers)
             rest == rank_candidates(Tail(drivers), compliance_results, routing_results)
         IN  IF \/ driver.driver_id \notin Ids(compliance_results)
                \/ driver.driver_id \notin Ids(routing_results)
             THEN rest
             ELSE LET compliance == ById(compliance_results, driver.driver_id)
                      routing == ById(routing_results, driver.driver_id)
                  IN  IF ~RankGate(compliance, routing) THEN rest
                      ELSE << [ driver_id |-> driver.driver_id,
                                score |-> _score(driver, routing), rank |-> 0,
                                eta_to_pickup_minutes |-> routing.eta_to_pickup_minutes ] >>
                           \o rest

\* ranking.py lines 71-73: sort, then rank = position.
rank(drivers, compliance_results, routing_results) ==
    LET sorted == SortDesc(rank_candidates(drivers, compliance_results, routing_results))
    IN  [i \in 1..Len(sorted) |-> [sorted[i] EXCEPT !.rank = i]]

\* ranking_agent.py RankingAgent._calculate_score, in tenths of a point.
_calculate_score(driver, routing, order, db) ==
    LET eta_penalty == routing.eta_to_pickup_minutes * 5
        vehicle_match == driver.vehicle_type = order.vehicle_type
        days_until_expiry == driver.license_days
        remaining_km == 300 - get_driver_workload_today(driver, db).km_today
        total_trip_penalty == routing.total_trip_time_minutes * 2
    IN  1000 - eta_penalty
        + (IF vehicle_match THEN 200 ELSE -100)
        + (IF days_until_expiry > 90 THEN 100 ELSE IF days_until_expiry > 30 THEN 50 ELSE 0)
        + (IF remaining_km > 100 THEN 150 ELSE IF remaining_km > 50 THEN 50 ELSE 0)
        - total_trip_penalty

\* ranking_agent.py RankingAgent.rank_drivers, lines 21-36: one score per routing
\* result whose driver is in the driver list, sorted by score, best first.
RECURSIVE rank_drivers_scores(_, _, _, _)
rank_drivers_scores(drivers, routing_results, order, db) ==
    IF routing_results = <<>> THEN <<>>
    ELSE LET routing == Head(routing_results)
             rest == rank_drivers_scores(drivers, Tail(routing_results), order, db)
         IN  IF routing.driver_id \notin Ids(drivers) THEN rest
             ELSE << [ driver_id |-> routing.driver_id,
                       score |-> _calculate_score(ById(drivers, routing.driver_id),
                                                  routing, order, db),
                       rank |-> 0,
                       eta_to_pickup_minutes |-> routing.eta_to_pickup_minutes ] >> \o rest

rank_drivers(drivers, routing_results, order, db) ==
    LET sorted == SortDesc(rank_drivers_scores(drivers, routing_results, order, db))
    IN  [i \in 1..Len(sorted) |-> [sorted[i] EXCEPT !.rank = i]]

\* ------------------------------------------------------------ state
VARIABLES
    variant,            \* which build runs: "polling", "local" or "mock"
    dbUp,               \* whether the audit store is reachable during the run
    directory,          \* the active drivers the directory holds
    pc,                 \* where process_order is
    all_drivers,        \* all_drivers / active_drivers
    compliance_results, \* the eligibility filter's output
    eligible_drivers,   \* the drivers handed to the router
    routing_results,    \* the router's output
    callable_drivers,   \* orchestrator_agent.py eligible_drivers (compliant and SLA-feasible)
    ranked,             \* ranked_drivers / rankings
    idx,                \* the dispatch loop's position in ranked (1-based)
    calls,              \* the call sessions opened so far, in order, with their outcomes
    dispatch_ret,       \* what the dispatch loop returned: "unset", "None" or "accepted"
    elapsed,            \* _poll_outcome: elapsed
    polls,              \* status polls made in the current session
    last_poll,          \* how the session's last status poll ended: "none", "http_error" or "json"
    round,              \* _local_voice_call: record/transcribe rounds begun
    repeat_count,       \* _local_voice_call: repeat_count
    transcript,         \* _local_voice_call: transcript of the last round
    stt,                \* the last round's transcription: how each transport ended
    wav_files,          \* temporary recordings on disk
    round_audio,        \* the audio events of the round in progress, in order
    result,             \* what process_order returned
    orderStatus,        \* the order's status in the audit store ("none": no record)
    audit,              \* the audit store's event stream of this order
    queries,            \* external routing queries issued
    runs,               \* the requests the hosting service is serving concurrently
    store,              \* the audit store's workload of the shared driver: km assigned today
    fin,                \* the arguments a function under examination is applied to
    fout                \* what it returned ([fn |-> "none"] before the call)

procVars == <<all_drivers, compliance_results, eligible_drivers, routing_results,
              callable_drivers, ranked>>
loopVars == <<idx, calls, dispatch_ret>>
pollVars == <<elapsed, polls, last_poll>>
localVars == <<round, repeat_count, transcript, stt, wav_files, round_audio>>
endVars == <<result, orderStatus, audit>>
buildVars == <<variant, dbUp, directory>>
serviceVars == <<runs, store>>
fnVars == <<fin, fout>>
\* What one run of process_order never writes: the build it runs in, the other
\* requests of the hosting service, and the function examination.
envVars == <<buildVars, serviceVars, fnVars>>

vars == <<variant, dbUp, directory, pc, all_drivers, compliance_results, eligible_drivers,
          routing_results, callable_drivers, ranked, idx, calls, dispatch_ret, elapsed,
          polls, last_poll, round, repeat_count, transcript, stt, wav_files, round_audio, result,
          orderStatus,
          audit, queries, runs, store, fin, fout>>

Variants == {"polling", "local", "mock"}

NoResult ==
    [ status |-> "none", reason |-> "none", assigned_driver_id |-> 0,
      drivers_called |-> -1, drivers_considered |-> -1 ]

NoStt == [streaming |-> "none", batch |-> "none"]

\* Nothing of a run exists yet.
ProcessFresh ==
    /\ all_drivers = <<>>
    /\ compliance_results = <<>>
    /\ eligible_drivers = <<>>
    /\ routing_results = <<>>
    /\ callable_drivers = <<>>
    /\ ranked = <<>>
    /\ idx = 0
    /\ calls = <<>>
    /\ dispatch_ret = "unset"
    /\ elapsed = 0
    /\ polls = 0
    /\ last_poll = "none"
    /\ round = 0
    /\ repeat_count = 0
    /\ transcript = <<>>
    /\ stt = NoStt
    /\ wav_files = 0
    /\ round_audio = <<>>
    /\ result = NoResult
    /\ orderStatus = "none"
    /\ audit = <<>>
    /\ queries = 0

\* process_order has not begun.
ProcessIdle == pc = "start" /\ ProcessFresh

\* No request is being served.
ServiceIdle == runs = <<>> /\ store = [km0 |-> 0, km |-> 0]

\* No function is under examination.
FnIdle == fin = [fn |-> "none"] /\ fout = [fn |-> "none"]

Init ==
    /\ variant \in Variants
    /\ dbUp \in BOOLEAN
    /\ directory \in Pools
    /\ ProcessIdle
    /\ ServiceIdle
    /\ FnIdle

Event(kind, driver_id) == [kind |-> kind, driver_id |-> driver_id]

\* One audit record per element of s (a ranking or compliance list).
EventsFor(kind, s) == [i \in 1..Len(s) |-> Event(kind, s[i].driver_id)]

\* The call in progress is the last of calls.
LastCall == calls[Len(calls)]

SetOutcome(outcome, reason) ==
    [calls EXCEPT ![Len(calls)] = [@ EXCEPT !.outcome = outcome, !.decline_reason = reason]]

OpenCall(driver_id) ==
    Append(calls, [driver_id |-> driver_id, outcome |-> "pending", decline_reason |-> "None"])

\* --------------------------------------- polling build: orchestrator.py
\* `if not all_drivers`, `if not eligible_drivers`, `if not ranked_drivers`
\* Variant: no gate ever finds its input empty.
P_Empty_never(s) == FALSE

P_Empty(s) == Len(s) = 0

\* The dict process_order returns on a gate failure (lines 86, 96, 107, 128).
P_Failed(reason) ==
    [ status |-> "failed", reason |-> reason, assigned_driver_id |-> 0,
      drivers_called |-> -1, drivers_considered |-> -1 ]

\* AuditLogger.log_dispatch_failed, then `return {"status": "failed", ...}`
P_ReturnFailed(reason) ==
    /\ orderStatus' = "failed"
    /\ audit' = Append(audit, Event("failed:" \o reason, 0))
    /\ result' = P_Failed(reason)
    /\ pc' = "returned"

\* Lines 73-78: _parse_order (GPT-4o), then AuditLogger.log_order. Nothing
\* catches what either raises.
P_ParseOrder ==
    /\ variant = "polling" /\ pc = "start"
    /\ \E parsed \in BOOLEAN :
          IF parsed /\ dbUp
          THEN /\ orderStatus' = "dispatching"
               /\ audit' = Append(audit, Event("order", 0))
               /\ pc' = "fetch"
          ELSE /\ pc' = "raised"
               /\ UNCHANGED <<orderStatus, audit>>
    /\ UNCHANGED <<envVars, procVars, loopVars, pollVars, localVars, result, queries>>

\* Lines 80-86: DriverContextAgent.get_active_drivers re-raises an HTTP error.
P_FetchDrivers ==
    /\ variant = "polling" /\ pc = "fetch"
    /\ \E fetched \in BOOLEAN :
          IF ~fetched
          THEN /\ pc' = "raised"
               /\ UNCHANGED <<all_drivers, endVars>>
          ELSE /\ all_drivers' = directory
               /\ IF P_Empty(directory)
                  THEN P_ReturnFailed("no_active_drivers")
                  ELSE pc' = "compliance" /\ UNCHANGED endVars
    /\ UNCHANGED <<envVars, compliance_results, eligible_drivers, routing_results,
                   callable_drivers, ranked, loopVars, pollVars, localVars, queries>>

\* compliance.py ComplianceAgent.check_all
check_all(drivers, order) == [i \in 1..Len(drivers) |-> _check_driver(drivers[i], order)]

\* Lines 88-96
P_Compliance ==
    /\ variant = "polling" /\ pc = "compliance"
    /\ LET results == check_all(all_drivers, TheOrder)
           eligible_ids == {results[i].driver_id : i \in {j \in 1..Len(results) : results[j].eligible}}
           eligible == SelectSeqBy(all_drivers, eligible_ids)
       IN  /\ compliance_results' = results
           /\ eligible_drivers' = eligible
           /\ IF P_Empty(eligible)
              THEN P_ReturnFailed("no_eligible_drivers")
              ELSE pc' = "routing" /\ UNCHANGED endVars
    /\ UNCHANGED <<envVars, all_drivers, routing_results, callable_drivers, ranked,
                   loopVars, pollVars, localVars, queries>>

\* Lines 98-99: RoutingAgent.compute_etas. _distance_matrix raises on an HTTP
\* error or a response status other than OK, and nothing catches it.
P_Routing ==
    /\ variant = "polling" /\ pc = "routing"
    /\ \/ /\ pc' = "raised"
          /\ queries' = queries + 1
          /\ UNCHANGED routing_results
       \/ \E elements \in [1..Len(eligible_drivers) -> RouteElements] :
             /\ routing_results' = compute_etas_from(eligible_drivers, elements,
                                                     Leg2Element, TheOrder)
             /\ queries' = queries + RoutingQueries("polling", elements)
             /\ pc' = "rank"
    /\ UNCHANGED <<envVars, all_drivers, compliance_results, eligible_drivers,
                   callable_drivers, ranked, loopVars, pollVars, localVars, endVars>>

\* Lines 101-111: RankingEngine.rank, AuditLogger.log_ranking, the gate.
P_Rank ==
    /\ variant = "polling" /\ pc = "rank"
    /\ LET r == rank(all_drivers, compliance_results, routing_results)
       IN  /\ ranked' = r
           /\ IF P_Empty(r)
              THEN P_ReturnFailed("no_sla_feasible_drivers") /\ idx' = idx
              ELSE /\ audit' = audit \o EventsFor("ranked", r)
                   /\ pc' = "dispatch"
                   /\ idx' = 1
                   /\ UNCHANGED <<result, orderStatus>>
    /\ UNCHANGED <<envVars, all_drivers, compliance_results, eligible_drivers,
                   routing_results, callable_drivers, calls, dispatch_ret, pollVars,
                   localVars, queries>>

\* ------------------------------------ polling build: voice_dispatch.py
\* `if outcome.outcome == "accepted"` (line 53)
\* Variant: the loop never recognises an acceptance.
P_IsAccepted_never(outcome) == FALSE

P_IsAccepted(outcome) == outcome = "accepted"

\* Variant: the loop steps over the next ranked driver.
P_NextIndex_skip(i) == i + 2

\* `for driver in ranked_drivers`: the position after position i
P_NextIndex(i) == i + 1

\* Variant: the loop takes one more turn at the ceiling.
PollAgain_le(e) == e <= CALL_TIMEOUT_S

\* `while elapsed < CALL_TIMEOUT_S` (line 105)
PollAgain(e) == e < CALL_TIMEOUT_S

\* `data["status"] in ("completed", "failed", "no_answer")` (line 114)
IsTerminalStatus(status) == status \in {"completed", "failed", "no_answer"}

\* `data.get("driver_response", "no_answer")` (line 118)
DriverResponse(data) ==
    IF data.driver_response = "absent" THEN "no_answer" ELSE data.driver_response

\* What POST /calls may come to: a call id, an HTTP error (status or transport),
\* or a 2xx body without a usable "call_id".
InitResponses == {"call_id", "http_error", "no_call_id"}

\* What GET /calls/{id} may come to. "absent" marks a missing key.
PollResponses ==
    { [kind |-> "http_error", status |-> "absent", driver_response |-> "absent"]
    , [kind |-> "json", status |-> "absent", driver_response |-> "absent"]
    , [kind |-> "json", status |-> "in_progress", driver_response |-> "absent"]
    , [kind |-> "json", status |-> "no_answer", driver_response |-> "absent"]
    , [kind |-> "json", status |-> "failed", driver_response |-> "absent"]
    , [kind |-> "json", status |-> "completed", driver_response |-> "absent"]
    , [kind |-> "json", status |-> "completed", driver_response |-> "accepted"]
    , [kind |-> "json", status |-> "completed", driver_response |-> "declined"]
    , [kind |-> "json", status |-> "completed", driver_response |-> "maybe"]
    }

\* dispatch, lines 47-51, and _call_driver, lines 68-97: the loop takes the next
\* ranked driver and opens its session with POST /calls. Only httpx.HTTPError is
\* caught; a KeyError of response.json()["call_id"] leaves dispatch and, with
\* nothing catching it in orchestrator.py, process_order.
P_OpenCall ==
    /\ variant = "polling" /\ pc = "dispatch" /\ idx <= Len(ranked)
    /\ \E resp \in InitResponses :
          /\ elapsed' = 0
          /\ polls' = 0
          /\ last_poll' = "none"
          /\ CASE resp = "call_id" ->
                    /\ calls' = OpenCall(ranked[idx].driver_id)
                    /\ pc' = "poll"
               [] resp = "http_error" ->
                    /\ calls' = Append(calls, [driver_id |-> ranked[idx].driver_id,
                                               outcome |-> "error",
                                               decline_reason |-> "http_error"])
                    /\ pc' = "observe"
               [] OTHER ->
                    /\ calls' = Append(calls, [driver_id |-> ranked[idx].driver_id,
                                               outcome |-> "raised",
                                               decline_reason |-> "KeyError: call_id"])
                    /\ pc' = "raised"
    /\ UNCHANGED <<envVars, procVars, idx, dispatch_ret, localVars, endVars, queries>>

\* dispatch, lines 62-66: the list is exhausted.
P_Exhausted ==
    /\ variant = "polling" /\ pc = "dispatch" /\ idx > Len(ranked)
    /\ dispatch_ret' = "None"
    /\ pc' = "finish"
    /\ UNCHANGED <<envVars, procVars, idx, calls, pollVars, localVars, endVars, queries>>

\* _poll_outcome, lines 105-124: one turn of the loop. An HTTP error is logged
\* and the loop goes on; a body without "status" raises KeyError, which nothing
\* catches. elapsed and polls are the session's locals: they end with it.
P_Poll ==
    /\ variant = "polling" /\ pc = "poll" /\ PollAgain(elapsed)
    /\ \E data \in PollResponses :
          /\ last_poll' = data.kind
          /\ CASE data.kind = "http_error" ->
                 /\ elapsed' = elapsed + CALL_POLL_INTERVAL_S
                 /\ polls' = polls + 1
                 /\ UNCHANGED <<calls, pc>>
            [] data.kind = "json" /\ data.status = "absent" ->
                 /\ calls' = SetOutcome("raised", "KeyError: status")
                 /\ pc' = "raised"
                 /\ elapsed' = 0 /\ polls' = 0
            [] data.kind = "json" /\ IsTerminalStatus(data.status) ->
                 /\ calls' = SetOutcome(DriverResponse(data), "None")
                 /\ pc' = "observe"
                 /\ elapsed' = 0 /\ polls' = 0
            [] OTHER ->
                 /\ elapsed' = elapsed + CALL_POLL_INTERVAL_S
                 /\ polls' = polls + 1
                 /\ UNCHANGED <<calls, pc>>
    /\ UNCHANGED <<envVars, procVars, idx, dispatch_ret, localVars, endVars, queries>>

\* _poll_outcome, lines 126-127: the ceiling is reached.
P_PollTimeout ==
    /\ variant = "polling" /\ pc = "poll" /\ ~PollAgain(elapsed)
    /\ calls' = SetOutcome("no_answer", "None")
    /\ pc' = "observe"
    /\ elapsed' = 0 /\ polls' = 0
    /\ UNCHANGED last_poll
    /\ UNCHANGED <<envVars, procVars, idx, dispatch_ret, localVars, endVars, queries>>

\* dispatch, lines 53-60: the loop looks at the session's outcome.
P_Observe ==
    /\ variant = "polling" /\ pc = "observe"
    /\ IF P_IsAccepted(LastCall.outcome)
       THEN dispatch_ret' = "accepted" /\ pc' = "finish" /\ idx' = idx
       ELSE dispatch_ret' = dispatch_ret /\ pc' = "dispatch" /\ idx' = P_NextIndex(idx)
    /\ last_poll' = "none"
    /\ UNCHANGED <<envVars, procVars, calls, elapsed, polls, localVars, endVars, queries>>

\* Variant: whatever the loop returned counts as an assignment.
P_Assigned_always(ret, outcome) == TRUE

\* `outcome and outcome.outcome == "accepted"` (orchestrator.py line 116)
P_Assigned(ret, outcome) == ret # "None" /\ outcome = "accepted"

\* Variant: every ranked driver is counted.
calls_attempted_all(ranked_drivers, driver_id) == Len(ranked_drivers)

\* `next((d.rank for d in ranked_drivers if d.driver_id == outcome.driver_id), None)`
calls_attempted(ranked_drivers, driver_id) ==
    IF driver_id \in Ids(ranked_drivers) THEN ById(ranked_drivers, driver_id).rank ELSE -1

\* orchestrator.py lines 116-132: log_assignment (which logs the attempt, marks
\* the order assigned and links the driver) or log_dispatch_failed.
P_Finish ==
    /\ variant = "polling" /\ pc = "finish"
    /\ IF P_Assigned(dispatch_ret, IF dispatch_ret = "None" THEN "None" ELSE LastCall.outcome)
       THEN /\ audit' = audit \o << Event("call:" \o LastCall.outcome, LastCall.driver_id),
                                    Event("assigned", LastCall.driver_id) >>
            /\ orderStatus' = "assigned"
            /\ result' = [ status |-> "assigned", reason |-> "none",
                           assigned_driver_id |-> LastCall.driver_id,
                           drivers_called |-> calls_attempted(ranked, LastCall.driver_id),
                           drivers_considered |-> -1 ]
            /\ pc' = "returned"
       ELSE P_ReturnFailed("all_drivers_declined")
    /\ UNCHANGED <<envVars, procVars, loopVars, pollVars, localVars, queries>>

\* ------------------------- local and mock builds: orchestrator_agent.py
\* `if not active_drivers`, `if not compliant_drivers`, `if not sla_compliant_routes`,
\* `if not rankings`
L_Empty(s) == Len(s) = 0

\* OrchestratorAgent._create_failure_result
_create_failure_result(message) ==
    [ status |-> "failed", reason |-> message, assigned_driver_id |-> 0,
      drivers_called |-> 0, drivers_considered |-> 0 ]

\* A gate's `return self._create_failure_result(...)`: nothing is written to the store.
L_ReturnFailed(message) ==
    /\ result' = _create_failure_result(message)
    /\ pc' = "returned"
    /\ UNCHANGED <<orderStatus, audit>>

\* Neo4jClient methods that begin with `if self._db_unavailable(): return` write
\* only when the store is connected; the others open a session on self.driver
\* and raise AttributeError when it is None.
L_IsLocal == variant \in {"local", "mock"}

\* Lines 54-65: create_order_audit_graph (guarded), _analyze_order_with_gpt
\* (catches its own exceptions).
L_Start ==
    /\ L_IsLocal /\ pc = "start"
    /\ IF dbUp
       THEN orderStatus' = "processing" /\ audit' = <<Event("order", 0)>>
       ELSE UNCHANGED <<orderStatus, audit>>
    /\ pc' = "fetch"
    /\ UNCHANGED <<envVars, procVars, loopVars, pollVars, localVars, result, queries>>

\* Lines 67-73: driver_context_agent.py get_active_drivers reads the local pool.
L_FetchDrivers ==
    /\ L_IsLocal /\ pc = "fetch"
    /\ all_drivers' = directory
    /\ IF L_Empty(directory)
       THEN L_ReturnFailed("No active drivers available")
       ELSE pc' = "compliance" /\ UNCHANGED endVars
    /\ UNCHANGED <<envVars, compliance_results, eligible_drivers, routing_results,
                   callable_drivers, ranked, loopVars, pollVars, localVars, queries>>

\* compliance_agent.py ComplianceAgent.check_compliance
check_compliance(drivers, order, db) ==
    [i \in 1..Len(drivers) |-> _check_driver_compliance_in_memory(drivers[i], order, db)]

\* compliance_agent.py ComplianceAgent.filter_compliant_drivers
filter_compliant_drivers(drivers, results) ==
    SelectSeqBy(drivers, {results[i].driver_id :
                             i \in {j \in 1..Len(results) : results[j].is_compliant}})

\* Lines 75-87: check_compliance logs one decision per driver (guarded).
L_Compliance ==
    /\ L_IsLocal /\ pc = "compliance"
    /\ LET results == check_compliance(all_drivers, TheOrder, dbUp)
           compliant_drivers == filter_compliant_drivers(all_drivers, results)
       IN  /\ compliance_results' = results
           /\ eligible_drivers' = compliant_drivers
           /\ IF L_Empty(compliant_drivers)
              THEN /\ result' = _create_failure_result("No compliant drivers found")
                   /\ pc' = "returned"
              ELSE pc' = "routing" /\ UNCHANGED result
           /\ audit' = IF dbUp THEN audit \o EventsFor("compliance", results) ELSE audit
    /\ UNCHANGED <<envVars, all_drivers, routing_results, callable_drivers, ranked,
                   loopVars, pollVars, localVars, orderStatus, queries>>

\* An element together with what the driver's own pickup-to-dropoff query came to.
WithLeg2(e, s) == [status |-> e.status, duration |-> e.duration, leg2_status |-> s]

\* What one driver's route computation may come to in routing_agent.py: the
\* collaborator's element or an exception on the first query, and for an OK
\* element an answer or an exception on the second query (all caught in
\* _calculate_single_route).
LocalElementsOf(es) ==
    { WithLeg2(e, "OK") : e \in es \cup {[status |-> "EXCEPTION", duration |-> 0]} }
    \cup { WithLeg2(e, "EXCEPTION") : e \in {x \in es : x.status = "OK"} }

LocalRouteElements == LocalElementsOf(RouteElements)

\* mock_routing_agent.py computes every route itself: a result for every driver.
MockRouteElements == { WithLeg2(e, "OK") : e \in {x \in RouteElements : x.status = "OK"} }

\* Lines 89-106: calculate_routes, filter_sla_compliant_routes, the gate, and the
\* drivers that are both compliant and SLA-feasible.
L_Routing ==
    /\ L_IsLocal /\ pc = "routing"
    /\ \E elements \in [1..Len(eligible_drivers) ->
                          IF variant = "local" THEN LocalRouteElements ELSE MockRouteElements] :
          LET results == calculate_routes(eligible_drivers, elements, Leg2Element, TheOrder)
              sla_compliant_routes == filter_sla_compliant_routes(results)
          IN  /\ routing_results' = results
              /\ queries' = queries + RoutingQueries(variant, elements)
              /\ callable_drivers' = SelectSeqBy(eligible_drivers, Ids(sla_compliant_routes))
              /\ IF L_Empty(sla_compliant_routes)
                 THEN L_ReturnFailed("No drivers can meet SLA time window")
                 ELSE pc' = "rank" /\ UNCHANGED endVars
    /\ UNCHANGED <<envVars, all_drivers, compliance_results, eligible_drivers, ranked,
                   loopVars, pollVars, localVars>>

\* Lines 108-116: rank_drivers, which ends with log_ranking_decision (not
\* guarded: it opens a session per ranking).
L_Rank ==
    /\ L_IsLocal /\ pc = "rank"
    /\ LET rankings == rank_drivers(callable_drivers,
                                    filter_sla_compliant_routes(routing_results),
                                    TheOrder, dbUp)
       IN  IF ~L_Empty(rankings) /\ ~dbUp
           THEN pc' = "except" /\ UNCHANGED <<ranked, idx, endVars>>
           ELSE /\ ranked' = rankings
                /\ IF L_Empty(rankings)
                   THEN L_ReturnFailed("No drivers to rank") /\ idx' = idx
                   ELSE /\ audit' = audit \o EventsFor("ranked", rankings)
                        /\ pc' = "dispatch"
                        /\ idx' = 1
                        /\ UNCHANGED <<result, orderStatus>>
    /\ UNCHANGED <<envVars, all_drivers, compliance_results, eligible_drivers,
                   routing_results, callable_drivers, calls, dispatch_ret, pollVars,
                   localVars, queries>>

\* Lines 178-192: the handler of process_order. update_order_status is not
\* guarded, so without a store the handler itself raises.
L_Except ==
    /\ L_IsLocal /\ pc = "except"
    /\ IF dbUp
       THEN /\ orderStatus' = "failed"
            /\ audit' = Append(audit, Event("status:failed", 0))
            /\ result' = _create_failure_result("System error")
            /\ pc' = "returned"
       ELSE pc' = "raised" /\ UNCHANGED endVars
    /\ UNCHANGED <<envVars, procVars, loopVars, pollVars, localVars, queries>>

\* ------------------- local dispatch loop: voice_dispatch_agent.py
\* dispatch_to_drivers: `if call_result.outcome == CallOutcome.ACCEPTED`
L_IsAccepted(outcome) == outcome = "accepted"

\* mock_voice_agent.py dispatch_to_drivers: the same test
M_IsAccepted(outcome) == outcome = "accepted"

\* `for ranking in rankings`
L_NextIndex(i) == i + 1

\* Variant: one replay too many is allowed.
MayRepeat_le(t, rc) == _wants_repeat(t) /\ rc <= MAX_REPEATS

\* _local_voice_call: `if self._wants_repeat(transcript) and repeat_count < MAX_REPEATS`
MayRepeat(t, rc) == _wants_repeat(t) /\ rc < MAX_REPEATS

\* The locals of _local_voice_call before its loop.
L_ResetLocals ==
    /\ round' = 0 /\ repeat_count' = 0 /\ transcript' = <<>> /\ stt' = NoStt
    /\ round_audio' = <<>>

\* Lines 65-72: driver_map.get(ranking.driver_id), `continue` when it is absent,
\* else _call_driver -> _local_voice_call up to `repeat_count = 0`.
L_OpenCall ==
    /\ variant = "local" /\ pc = "dispatch" /\ idx <= Len(ranked)
    /\ IF ranked[idx].driver_id \in Ids(callable_drivers)
       THEN calls' = OpenCall(ranked[idx].driver_id) /\ pc' = "record" /\ idx' = idx
       ELSE idx' = L_NextIndex(idx) /\ UNCHANGED <<calls, pc>>
    /\ L_ResetLocals
    /\ UNCHANGED <<envVars, procVars, dispatch_ret, pollVars, wav_files, endVars, queries>>

\* Lines 146-157: sd.rec starts the capture, time.sleep(WARMUP_DELAY),
\* subprocess.Popen starts `say`, sd.wait() returns when the capture is full, and
\* say_proc.terminate() ends the playback if it is still running. How long `say`
\* takes is the player's matter: it has ended before the capture is full, or not.
RoundAudio ==
    { <<"rec_start", "say_start", "say_done", "rec_done">>
    , <<"rec_start", "say_start", "rec_done", "say_terminated">>
    }

\* _save_wav: tempfile.NamedTemporaryFile(suffix=".wav", delete=False)
_save_wav(files) == files + 1

\* Variant: the recording is left on disk.
os_unlink_skipped(files) == files

\* `finally: os.unlink(wav_path)`
os_unlink(files) == files - 1

\* Lines 143-160: sd.rec, the `say` subprocess, sd.wait, _save_wav. None of them
\* is inside a try block, so a failing device or subprocess leaves the session
\* by exception.
L_Record ==
    /\ variant = "local" /\ pc = "record"
    /\ \/ /\ round' = round + 1
          /\ wav_files' = _save_wav(wav_files)
          /\ stt' = NoStt
          /\ round_audio' \in RoundAudio
          /\ pc' = "stream"
          /\ UNCHANGED calls
       \/ /\ calls' = SetOutcome("raised", "audio")
          /\ pc' = "except"
          /\ UNCHANGED <<round, wav_files, stt, round_audio>>
    /\ UNCHANGED <<envVars, procVars, idx, dispatch_ret, pollVars, repeat_count,
                   transcript, endVars, queries>>

\* _transcribe_streaming: a failure to connect or to send raises; a receive
\* error or timeout is swallowed and the text received so far is returned.
StreamingEnds == {"final", "recv_failed"}

\* _transcribe lines 239-249, first half: the streaming attempt.
L_Stream ==
    /\ variant = "local" /\ pc = "stream"
    /\ \/ /\ stt' = [stt EXCEPT !.streaming = "raised"]
          /\ pc' = "batch"
          /\ UNCHANGED transcript
       \/ \E t \in Transcripts, how \in StreamingEnds :
             /\ stt' = [stt EXCEPT !.streaming = how]
             /\ transcript' = Strip(t)
             /\ pc' = "settle"
    /\ UNCHANGED <<envVars, procVars, loopVars, pollVars, round, repeat_count,
                   wav_files, round_audio, endVars, queries>>

\* _transcribe, second half: the batch fallback, which returns the service's
\* text as it is; its exception is not caught here.
L_Batch ==
    /\ variant = "local" /\ pc = "batch"
    /\ \/ /\ stt' = [stt EXCEPT !.batch = "raised"]
          /\ UNCHANGED transcript
       \/ \E t \in Transcripts :
             /\ stt' = [stt EXCEPT !.batch = "returned"]
             /\ transcript' = t
    /\ pc' = "settle"
    /\ UNCHANGED <<envVars, procVars, loopVars, pollVars, round, repeat_count,
                   wav_files, round_audio, endVars, queries>>

\* Variant: a failed transcription is not noticed.
TranscribeFailed_never(s) == FALSE

\* `except Exception as e` around self._transcribe(wav_path): both transports raised.
TranscribeFailed(s) == s.batch = "raised"

\* Lines 162-205: `except Exception` around _transcribe, `finally: os.unlink`,
\* the repeat test, and _parse_outcome.
L_Settle ==
    /\ variant = "local" /\ pc = "settle"
    /\ wav_files' = os_unlink(wav_files)
    /\ round_audio' = <<>>
    /\ IF TranscribeFailed(stt)
       THEN /\ calls' = SetOutcome("failed", "Transcription error")
            /\ pc' = "observe"
            /\ UNCHANGED repeat_count
       ELSE IF MayRepeat(transcript, repeat_count)
            THEN /\ repeat_count' = repeat_count + 1
                 /\ pc' = "record"
                 /\ UNCHANGED calls
            ELSE /\ calls' = SetOutcome(_parse_outcome(transcript).outcome,
                                        _parse_outcome(transcript).decline_reason)
                 /\ pc' = "observe"
                 /\ UNCHANGED repeat_count
    /\ UNCHANGED <<envVars, procVars, idx, dispatch_ret, pollVars, round, transcript,
                   stt, endVars, queries>>

\* mock_voice_agent.py lines 31-47 with _mock_call_driver: accepted or declined.
M_Call ==
    /\ variant = "mock" /\ pc = "dispatch" /\ idx <= Len(ranked)
    /\ IF ranked[idx].driver_id \in Ids(callable_drivers)
       THEN /\ \E o \in {"accepted", "declined"} :
                 calls' = Append(calls, [driver_id |-> ranked[idx].driver_id,
                                         outcome |-> o,
                                         decline_reason |-> IF o = "declined"
                                                            THEN "mock" ELSE "None"])
            /\ pc' = "observe" /\ idx' = idx
       ELSE idx' = L_NextIndex(idx) /\ UNCHANGED <<calls, pc>>
    /\ UNCHANGED <<envVars, procVars, dispatch_ret, pollVars, localVars, endVars, queries>>

\* Lines 79-96 (and mock_voice_agent.py 38-55): log_voice_call_outcome (not
\* guarded), then the accepted test.
L_Observe ==
    /\ L_IsLocal /\ pc = "observe"
    /\ IF ~dbUp
       THEN pc' = "except" /\ UNCHANGED <<idx, dispatch_ret, audit>>
       ELSE /\ audit' = Append(audit, Event("call:" \o LastCall.outcome, LastCall.driver_id))
            /\ IF (IF variant = "local" THEN L_IsAccepted(LastCall.outcome)
                                        ELSE M_IsAccepted(LastCall.outcome))
               THEN dispatch_ret' = "accepted" /\ pc' = "finish" /\ idx' = idx
               ELSE idx' = L_NextIndex(idx) /\ pc' = "dispatch" /\ UNCHANGED dispatch_ret
    /\ L_ResetLocals
    /\ UNCHANGED <<envVars, procVars, calls, pollVars, wav_files, result, orderStatus,
                   queries>>

\* Line 102: `return None` after the last ranking.
L_Exhausted ==
    /\ L_IsLocal /\ pc = "dispatch" /\ idx > Len(ranked)
    /\ dispatch_ret' = "None"
    /\ pc' = "finish"
    /\ UNCHANGED <<envVars, procVars, idx, calls, pollVars, localVars, endVars, queries>>

\* Variant: no acceptance is recognised after the loop.
L_Assigned_never(ret, outcome) == FALSE

\* orchestrator_agent.py line 123: `if not call_result or call_result.outcome != ACCEPTED`
L_Assigned(ret, outcome) == ret # "None" /\ outcome = "accepted"

\* Lines 123-176: update_order_status(DECLINED) and the failure result, or
\* log_assignment and the DRIVER_ASSIGNED result.
L_Finish ==
    /\ L_IsLocal /\ pc = "finish"
    /\ IF ~dbUp
       THEN pc' = "except" /\ UNCHANGED endVars
       ELSE IF L_Assigned(dispatch_ret, IF calls = <<>> THEN "none" ELSE LastCall.outcome)
            THEN /\ orderStatus' = "driver_assigned"
                 /\ audit' = Append(audit, Event("assigned", LastCall.driver_id))
                 /\ result' = [ status |-> "driver_assigned", reason |-> "None",
                                assigned_driver_id |-> LastCall.driver_id,
                                drivers_called |-> Len(ranked),
                                drivers_considered |-> Len(all_drivers) ]
                 /\ pc' = "returned"
            ELSE /\ orderStatus' = "declined"
                 /\ audit' = Append(audit, Event("status:declined", 0))
                 /\ result' = _create_failure_result("All drivers declined the assignment")
                 /\ pc' = "returned"
    /\ UNCHANGED <<envVars, procVars, loopVars, pollVars, localVars, queries>>

L_Next ==
    \/ L_Start \/ L_FetchDrivers \/ L_Compliance \/ L_Routing \/ L_Rank \/ L_Except
    \/ L_OpenCall \/ L_Record \/ L_Stream \/ L_Batch \/ L_Settle \/ M_Call
    \/ L_Observe \/ L_Exhausted \/ L_Finish

P_Next ==
    \/ P_ParseOrder \/ P_FetchDrivers \/ P_Compliance \/ P_Routing \/ P_Rank
    \/ P_OpenCall \/ P_Exhausted \/ P_Poll \/ P_PollTimeout \/ P_Observe \/ P_Finish

Next == P_Next \/ L_Next

Spec == Init /\ [][Next]_vars

\* --------------------------------- the hosting service: main.py
\* FastAPI serves every request as a coroutine on one event loop. A request
\* gives way to the others at its awaits: the GPT analysis, the routing
\* queries, and run_in_executor, where _local_voice_call runs in a worker
\* thread of the request's own ThreadPoolExecutor. Between two awaits a
\* request runs alone. All requests share the driver pool and the audit store;
\* the model follows one driver of the pool and the local build with the store
\* connected.
RunIds == 1..MaxRuns

\* Every variable of one process_order run, kept still while requests are served.
processVars == <<buildVars, pc, procVars, loopVars, pollVars, localVars, endVars, queries>>

\* The shared driver as the directory holds it.
SharedDriver == MkDriver(1, CHOOSE p \in Profiles : p.license_days = 200 /\ p.vehicle_type = "van")

\* The shared driver with the workload the store holds now.
DriverNow == [SharedDriver EXCEPT !.km_today = store.km]

\* routing_result.distance_km of the route an order may get.
RouteDistancesKm == {40, 100}

\* What the store may hold of the shared driver's assignments when the service starts.
StoredKm == {0, 200}

IdleRun ==
    [ kind |-> "none", pc |-> "idle", km_compliance |-> -1, km_ranking |-> -1,
      is_compliant |-> "unset", distance_km |-> 0, repeat_count |-> 0,
      outcome |-> "none", status |-> "none" ]

ServiceInit ==
    /\ variant = "local" /\ dbUp = TRUE /\ directory = <<SharedDriver>>
    /\ ProcessIdle
    /\ FnIdle
    /\ runs = [r \in RunIds |-> IdleRun]
    /\ \E km \in StoredKm : store = [km0 |-> km, km |-> km]

\* main.py create_order / create_order_async (lines 77-110): process_order up
\* to `await self._analyze_order_with_gpt(order)`.
S_SubmitOrder(r) ==
    /\ runs[r].pc = "idle"
    /\ runs' = [runs EXCEPT ![r] = [@ EXCEPT !.kind = "order", !.pc = "gpt"]]
    /\ UNCHANGED <<processVars, store, fnVars>>

\* main.py trigger_demo_call (lines 279-302): VoiceDispatchAgent()._call_driver
\* up to `await loop.run_in_executor(...)`.
S_SubmitDemoCall(r) ==
    /\ runs[r].pc = "idle"
    /\ runs' = [runs EXCEPT ![r] = [@ EXCEPT !.kind = "demo", !.pc = "calling"]]
    /\ UNCHANGED <<processVars, store, fnVars>>

\* orchestrator_agent.py lines 67-91: the pool, the compliance check, which
\* reads the driver's workload from the store, its gate, and on to the await
\* of the routing queries.
S_Compliance(r) ==
    /\ runs[r].pc = "gpt"
    /\ LET c == _check_driver_compliance_in_memory(DriverNow, TheOrder, dbUp)
       IN  runs' = [runs EXCEPT ![r] =
                      [@ EXCEPT !.km_compliance = get_driver_workload_today(DriverNow, dbUp).km_today,
                                !.is_compliant = IF c.is_compliant THEN "yes" ELSE "no",
                                !.pc = IF c.is_compliant THEN "routing" ELSE "returned",
                                !.status = IF c.is_compliant THEN "none" ELSE "failed"]]
    /\ UNCHANGED <<processVars, store, fnVars>>

\* Lines 94-121: the routes are back; the ranking, whose score reads the
\* workload from the store again; dispatch_to_drivers up to the executor.
S_Rank(r) ==
    /\ runs[r].pc = "routing"
    /\ \E d \in RouteDistancesKm :
          runs' = [runs EXCEPT ![r] =
                     [@ EXCEPT !.km_ranking = get_driver_workload_today(DriverNow, dbUp).km_today,
                               !.distance_km = d,
                               !.pc = "calling"]]
    /\ UNCHANGED <<processVars, store, fnVars>>

\* voice_dispatch_agent.py _local_voice_call line 143, in the worker thread:
\* sd.rec starts the recording on the input device.
S_Record(r) ==
    /\ runs[r].pc = "calling"
    /\ runs' = [runs EXCEPT ![r] = [@ EXCEPT !.pc = "recording"]]
    /\ UNCHANGED <<processVars, store, fnVars>>

\* Lines 156-160: sd.wait returns, the recording is complete and saved.
S_RecordDone(r) ==
    /\ runs[r].pc = "recording"
    /\ runs' = [runs EXCEPT ![r] = [@ EXCEPT !.pc = "transcribing"]]
    /\ UNCHANGED <<processVars, store, fnVars>>

\* Lines 161-205: the transcript; a replay, or the outcome and the thread's end.
S_Transcribed(r) ==
    /\ runs[r].pc = "transcribing"
    /\ \E t \in Transcripts :
          IF MayRepeat(t, runs[r].repeat_count)
          THEN runs' = [runs EXCEPT ![r] = [@ EXCEPT !.repeat_count = @ + 1, !.pc = "calling"]]
          ELSE runs' = [runs EXCEPT ![r] = [@ EXCEPT !.outcome = _parse_outcome(t).outcome,
                                                     !.pc = "called"]]
    /\ UNCHANGED <<processVars, store, fnVars>>

\* The coroutine resumes. orchestrator_agent.py lines 123-176: log_assignment
\* adds the route's distance to the driver's assignments of today; main.py
\* lines 287-299 for the demo call.
S_Return(r) ==
    /\ runs[r].pc = "called"
    /\ IF runs[r].kind = "order" /\ L_IsAccepted(runs[r].outcome)
       THEN /\ store' = [store EXCEPT !.km = @ + runs[r].distance_km]
            /\ runs' = [runs EXCEPT ![r] = [@ EXCEPT !.pc = "returned",
                                                     !.status = "driver_assigned"]]
       ELSE /\ runs' = [runs EXCEPT ![r] =
                          [@ EXCEPT !.pc = "returned",
                                    !.status = IF runs[r].kind = "order" THEN "failed" ELSE "demo"]]
            /\ UNCHANGED store
    /\ UNCHANGED <<processVars, fnVars>>

ServiceNext ==
    \E r \in RunIds :
       \/ S_SubmitOrder(r) \/ S_SubmitDemoCall(r) \/ S_Compliance(r) \/ S_Rank(r)
       \/ S_Record(r) \/ S_RecordDone(r) \/ S_Transcribed(r) \/ S_Return(r)

ServiceSpec == ServiceInit /\ [][ServiceNext]_vars

\* ------------------------------------------- the functions on their own
\* The pure functions of the pipeline applied to arguments of a wider range
\* than one order run brings up.
\* Drivers around every threshold of the eligibility rules.
FnDrivers ==
    { [ driver_id |-> 1, license_days |-> l, vehicle_type |-> v,
        km_budget_remaining_today |-> k, shift_start |-> ss, shift_end |-> 1200,
        km_today |-> kt, hours_today |-> h ] :
      l \in {10, 13, 14, 15, 200}, v \in {"van", "car", "Van"}, k \in {10, 20, 150},
      ss \in {480, 630}, kt \in {0, 280, 290}, h \in {0, 9} }

\* The order of the run, the same order for the evening (19:00-20:00), and for
\* the late afternoon (17:00-19:00).
FnOrders ==
    { TheOrder
    , [TheOrder EXCEPT !.pickup_by = 1140, !.deliver_by = 1200]
    , [TheOrder EXCEPT !.pickup_by = 1020, !.deliver_by = 1140]
    }

\* The drivers handed to the feasibility router: ids 1..n in input order.
FnRouteDrivers ==
    [i \in 1..MaxDrivers |-> MkDriver(i, CHOOSE p \in Profiles : p.license_days = 200)]

\* The elements of the run, and first legs that with the second leg make a trip
\* of 60, 70, 80 and 81 minutes.
FnRouteElements ==
    RouteElements \cup
    { [status |-> "OK", duration |-> d] : d \in {3000, 3600, 4200, 4260} }

\* The order of the run (20 minutes before pickup-by, 80 before deliver-by), and
\* the same order routed 40 minutes later (40 minutes before deliver-by).
FnRouteOrders == {TheOrder, [TheOrder EXCEPT !.now = 620]}

\* Final transcripts: the ones of the run, and ones with an accept keyword, with
\* a decline keyword, with both, with neither, in either case of letters.
FnTranscripts ==
    Transcripts \cup
    { <<"y", "e", "a", "h", " ", "I", " ", "c", "a", "n", " ", "d", "o", " ", "i", "t">>
    , <<"N", "o", " ", "O", "K">>
    , <<"s", "u", "r", "e", " ", "n", "o", " ", "p", "r", "o", "b", "l", "e", "m">>
    , <<"N", "o", "p", "e">>
    , <<"I", " ", "k", "n", "o", "w">>
    , <<"B", "u", "s", "y">>
    , <<" ", " ", "y", "e", "p", " ">>
    , <<"h", "e", "l", "l", "o", " ", "t", "h", "e", "r", "e">>
    , <<" ">>
    }

\* Eligible drivers with a given id, around the steps and caps of the scorers;
\* the workload store holds the kilometres that the budget no longer has.
FnScoreDrivers(i) ==
    { [ driver_id |-> i, license_days |-> l, vehicle_type |-> "van",
        km_budget_remaining_today |-> k, shift_start |-> 480, shift_end |-> 1200,
        km_today |-> 300 - k, hours_today |-> 0 ] :
      l \in {20, 60, 200, 211, 400}, k \in {40, 80, 191, 200, 300} }

\* A routing result that fits the SLA, with the second leg of the run.
FnRoute(i, eta) ==
    [ driver_id |-> i, eta_to_pickup_minutes |-> eta,
      total_trip_time_minutes |-> eta + Leg2Element.duration \div 60, fits_sla |-> TRUE ]

\* ETAs to pickup in minutes, one of them over the cap.
FnEtas == {10, 40, 130}

FnRankInputs ==
    { [fn |-> f, drivers |-> <<d1, d2>>,
       routing_results |-> <<FnRoute(1, e1), FnRoute(2, e2)>>, db |-> TRUE] :
        f \in {"rank", "rank_drivers"}, d1 \in FnScoreDrivers(1), d2 \in FnScoreDrivers(2),
        e1 \in FnEtas, e2 \in FnEtas }

FnInputs ==
    FnRankInputs
    \cup
    { [fn |-> "_parse_outcome", transcript |-> t] : t \in FnTranscripts }
    \cup
    { [fn |-> "_check_driver", driver |-> d, order |-> o, db |-> TRUE] :
        d \in FnDrivers, o \in FnOrders }
    \cup
    { [fn |-> "_check_driver_compliance_in_memory", driver |-> d, order |-> o, db |-> b] :
        d \in FnDrivers, o \in FnOrders, b \in BOOLEAN }
    \cup
    { [fn |-> "compute_etas", drivers |-> FnRouteDrivers, elements |-> es, order |-> o] :
        es \in [1..MaxDrivers -> FnRouteElements], o \in FnRouteOrders }
    \cup
    { [fn |-> "calculate_routes", drivers |-> FnRouteDrivers, elements |-> es, order |-> o] :
        es \in [1..MaxDrivers -> LocalElementsOf(FnRouteElements)], o \in FnRouteOrders }

FnInit ==
    /\ variant = "polling" /\ dbUp = TRUE /\ directory = <<>>
    /\ ProcessIdle
    /\ ServiceIdle
    /\ fin \in FnInputs
    /\ fout = [fn |-> "none"]

\* compliance.py: check_all applies _check_driver to one driver.
F_check_driver ==
    /\ fin.fn = "_check_driver" /\ fout.fn = "none"
    /\ fout' = [fn |-> fin.fn, value |-> _check_driver(fin.driver, fin.order)]
    /\ UNCHANGED <<processVars, serviceVars, fin>>

\* compliance_agent.py: check_compliance applies
\* _check_driver_compliance_in_memory to one driver.
F_check_driver_compliance_in_memory ==
    /\ fin.fn = "_check_driver_compliance_in_memory" /\ fout.fn = "none"
    /\ fout' = [fn |-> fin.fn,
                value |-> _check_driver_compliance_in_memory(fin.driver, fin.order, fin.db)]
    /\ UNCHANGED <<processVars, serviceVars, fin>>

\* routing.py: compute_etas on the answers of its two queries.
F_compute_etas ==
    /\ fin.fn = "compute_etas" /\ fout.fn = "none"
    /\ fout' = [fn |-> fin.fn,
                value |-> compute_etas_from(fin.drivers, fin.elements, Leg2Element, fin.order)]
    /\ UNCHANGED <<processVars, serviceVars, fin>>

\* routing_agent.py: calculate_routes on the answers of its queries.
F_calculate_routes ==
    /\ fin.fn = "calculate_routes" /\ fout.fn = "none"
    /\ fout' = [fn |-> fin.fn,
                value |-> calculate_routes(fin.drivers, fin.elements, Leg2Element, fin.order)]
    /\ UNCHANGED <<processVars, serviceVars, fin>>

\* voice_dispatch_agent.py: call_driver applies _parse_outcome to the final transcript.
F_parse_outcome ==
    /\ fin.fn = "_parse_outcome" /\ fout.fn = "none"
    /\ fout' = [fn |-> fin.fn, value |-> _parse_outcome(fin.transcript)]
    /\ UNCHANGED <<processVars, serviceVars, fin>>

\* ranking.py: rank on the eligibility results of the drivers and their routes.
F_rank ==
    /\ fin.fn = "rank" /\ fout.fn = "none"
    /\ fout' = [fn |-> fin.fn,
                value |-> rank(fin.drivers, check_all(fin.drivers, TheOrder),
                               fin.routing_results)]
    /\ UNCHANGED <<processVars, serviceVars, fin>>

\* ranking_agent.py: rank_drivers on the drivers and their routes.
F_rank_drivers ==
    /\ fin.fn = "rank_drivers" /\ fout.fn = "none"
    /\ fout' = [fn |-> fin.fn,
                value |-> rank_drivers(fin.drivers, fin.routing_results, TheOrder, fin.db)]
    /\ UNCHANGED <<processVars, serviceVars, fin>>

FnNext ==
    \/ F_rank
    \/ F_rank_drivers
    \/ F_parse_outcome
    \/ F_check_driver
    \/ F_check_driver_compliance_in_memory
    \/ F_compute_etas
    \/ F_calculate_routes

FnSpec == FnInit /\ [][FnNext]_vars

\* ------------------------------------------------------------ order intake
\* What a posted order payload may be: a complete order, one without an
\* order_id, and one with an order_id but without other required fields.
Payloads == {"valid", "no_order_id", "missing_fields"}

\* The intake route of a build: main.py serves orchestrator_agent.py (local and
\* mock), api/webhooks.py serves orchestrator.py (polling).
IntakeOf(v) == IF v = "polling" THEN "order_intake" ELSE "create_order"

\* A request has arrived and no handler has run.
IntakeInit ==
    /\ variant \in Variants
    /\ dbUp \in BOOLEAN
    /\ directory \in Pools
    /\ pc = "intake" /\ ProcessFresh
    /\ ServiceIdle
    /\ \E p \in Payloads : fin = [fn |-> IntakeOf(variant), payload |-> p]
    /\ fout = [fn |-> "none"]

\* main.py create_order: the `order: OrderRequest` parameter makes the framework
\* answer 422 to a body that is not an OrderRequest, before the handler runs;
\* otherwise the handler awaits orchestrator.process_order(order).
I_create_order ==
    /\ pc = "intake" /\ fin.fn = "create_order"
    /\ IF fin.payload # "valid"
       THEN pc' = "rejected" /\ fout' = [fn |-> fin.fn, value |-> 422]
       ELSE pc' = "start" /\ UNCHANGED fout
    /\ UNCHANGED <<buildVars, serviceVars, fin, procVars, loopVars, pollVars, localVars,
                   endVars, queries>>

\* api/webhooks.py order_intake: `payload: Dict[str, Any]`; 400 without an
\* order_id, otherwise process_order(payload) is queued and 202 is answered.
I_order_intake ==
    /\ pc = "intake" /\ fin.fn = "order_intake"
    /\ IF fin.payload = "no_order_id"
       THEN pc' = "rejected" /\ fout' = [fn |-> fin.fn, value |-> 400]
       ELSE pc' = "start" /\ fout' = [fn |-> fin.fn, value |-> 202]
    /\ UNCHANGED <<buildVars, serviceVars, fin, procVars, loopVars, pollVars, localVars,
                   endVars, queries>>

IntakeNext == I_create_order \/ I_order_intake \/ Next

IntakeSpec == IntakeInit /\ [][IntakeNext]_vars

\* ---------------------------------------------------------------- claims
\* The drivers called before the last one.
EarlierCalls == 1..(Len(calls) - 1)

\* C1: in each of the three dispatch loops an accepted session is the last one
\* of the run: no session other than the last was accepted, an acceptance makes
\* the loop return it, and the assigned driver is the one who accepted.
C1_AcceptedEndsLoop ==
    /\ \A i \in EarlierCalls : calls[i].outcome # "accepted"
    /\ dispatch_ret = "accepted" => calls # <<>> /\ LastCall.outcome = "accepted"
    /\ (pc \in {"finish", "returned"} /\ calls # <<>> /\ LastCall.outcome = "accepted")
          => dispatch_ret = "accepted"
    /\ (pc = "returned" /\ dispatch_ret = "accepted")
          => result.assigned_driver_id = LastCall.driver_id

\* An acceptance was returned while a lower-ranked candidate was still uncalled.
C1_Witness ==
    /\ dispatch_ret = "accepted"
    /\ LastCall.outcome = "accepted"
    /\ Len(calls) < Len(ranked)

\* C2: every driver for whom a session was opened has a compliance result that
\* is eligible (is_compliant in orchestrator_agent.py) and a routing result that
\* fits the SLA.
C2_CalledPassedBothGates ==
    \A i \in 1..Len(calls) :
       /\ \E j \in 1..Len(compliance_results) :
             /\ compliance_results[j].driver_id = calls[i].driver_id
             /\ IF variant = "polling" THEN compliance_results[j].eligible
                                       ELSE compliance_results[j].is_compliant
       /\ \E j \in 1..Len(routing_results) :
             /\ routing_results[j].driver_id = calls[i].driver_id
             /\ routing_results[j].fits_sla

\* A driver was called in a run whose pool also held a driver that failed a gate.
C2_Witness ==
    /\ calls # <<>>
    /\ Len(ranked) < Len(all_drivers)
    /\ \E j \in 1..Len(routing_results) : ~routing_results[j].fits_sla

\* C3: the sessions opened are the first Len(calls) entries of the ranked list,
\* in rank order, each driver once; a session follows only sessions that
\* returned an outcome other than accepted; and the loop gives up only after it
\* has called every ranked driver.
C3_CallsArePrefixOfRanking ==
    /\ Len(calls) <= Len(ranked)
    /\ \A i \in 1..Len(calls) : calls[i].driver_id = ranked[i].driver_id
    /\ \A i \in 1..Len(ranked) : ranked[i].rank = i
    /\ \A i, j \in 1..Len(ranked) : ranked[i].driver_id = ranked[j].driver_id => i = j
    /\ \A i \in EarlierCalls : calls[i].outcome \notin {"pending", "accepted", "raised"}
    /\ dispatch_ret = "None" => Len(calls) = Len(ranked)

\* The second-ranked driver's session is open after the first-ranked driver's
\* session returned.
C3_Witness ==
    /\ Len(calls) = 2
    /\ calls[1].driver_id = ranked[1].driver_id
    /\ calls[1].outcome \in {"declined", "no_answer", "error", "failed"}
    /\ calls[2].driver_id = ranked[2].driver_id

\* The reason each build reports for the gate after stage k (1 the pool, 2 the
\* eligible set, 3 the SLA-feasible ranked set), and for exhaustion (4).
StageReason(k) ==
    IF variant = "polling"
    THEN CASE k = 1 -> "no_active_drivers"
           [] k = 2 -> "no_eligible_drivers"
           [] k = 3 -> "no_sla_feasible_drivers"
           [] OTHER -> "all_drivers_declined"
    ELSE CASE k = 1 -> "No active drivers available"
           [] k = 2 -> "No compliant drivers found"
           [] k = 3 -> "No drivers can meet SLA time window"
           [] OTHER -> "All drivers declined the assignment"

FailedWith(k) == result.status = "failed" /\ result.reason = StageReason(k)

\* C4 (as stated): a session that ended without an acceptance, whatever made it
\* end, leaves the order running: the run is never aborted by it.
C4_FailedCallDoesNotAbort ==
    (calls # <<>> /\ LastCall.outcome \notin {"pending", "accepted"})
       => pc \notin {"raised", "except"}

\* C5 (as stated): no run of process_order ends by an escaping exception, and
\* a run that is over has returned a result whose status is assigned or failed.
C5_RunEndsWithTerminalResult ==
    /\ pc # "raised"
    /\ pc = "returned" => result.status \in {"assigned", "driver_assigned", "failed"}

\* C6: a run that returned with an empty pool, an empty eligible set or an empty
\* ranked set returned failed with the reason of the first empty stage; and in
\* every state a later stage has left a trace only if the earlier stage's output
\* was not empty (no routing query without an eligible driver, no call session
\* without a ranked driver).
C6_HardGates ==
    /\ (pc = "returned" /\ all_drivers = <<>>) => FailedWith(1)
    /\ (pc = "returned" /\ all_drivers # <<>> /\ eligible_drivers = <<>>) => FailedWith(2)
    /\ (pc = "returned" /\ eligible_drivers # <<>> /\ ranked = <<>>) => FailedWith(3)
    /\ compliance_results # <<>> => all_drivers # <<>>
    /\ (queries > 0 \/ routing_results # <<>>) => eligible_drivers # <<>>
    /\ ranked # <<>> => eligible_drivers # <<>>
    /\ (calls # <<>> \/ dispatch_ret # "unset") => ranked # <<>>

\* A run returned at the eligibility gate: drivers were on duty, none eligible.
C6_Witness ==
    /\ pc = "returned"
    /\ all_drivers # <<>>
    /\ eligible_drivers = <<>>
    /\ FailedWith(2)
    /\ queries = 0

\* C7: the loop returns none exactly when it ends with no accepted session, and
\* a run that returns after that is failed with the exhaustion reason, has no
\* assigned driver and does not record the order as assigned.
C7_ExhaustionFails ==
    /\ pc = "finish" =>
          (dispatch_ret = "None" <=> \A i \in 1..Len(calls) : calls[i].outcome # "accepted")
    /\ (pc = "returned" /\ dispatch_ret = "None") =>
          /\ FailedWith(4)
          /\ result.assigned_driver_id = 0
          /\ orderStatus \in {"failed", "declined"}

\* Every ranked driver was called, none accepted, and the run returned.
C7_Witness ==
    /\ pc = "returned"
    /\ dispatch_ret = "None"
    /\ Len(calls) = 2
    /\ Len(ranked) = 2
    /\ FailedWith(4)

\* C8: in the local session the replay counter never exceeds MAX_REPEATS and
\* the round counter never exceeds MAX_REPEATS + 1; a replay was granted only
\* for a transcript with a repeat keyword; and a session that was classified
\* was classified on its last transcript, which either has no repeat keyword
\* or came in round MAX_REPEATS + 1.
C8_RepeatIsBounded ==
    variant = "local" =>
       /\ repeat_count <= MAX_REPEATS
       /\ round <= MAX_REPEATS + 1
       /\ pc \in {"stream", "batch", "settle", "observe"} => round = repeat_count + 1
       /\ (pc = "record" /\ round > 0) => (round = repeat_count /\ _wants_repeat(transcript))
       /\ (pc = "observe" /\ LastCall.outcome # "failed") =>
             /\ LastCall.outcome = _parse_outcome(transcript).outcome
             /\ ~_wants_repeat(transcript) \/ round = MAX_REPEATS + 1

\* The third round's transcript asked for a repeat and was classified all the same.
C8_Witness ==
    /\ variant = "local"
    /\ pc = "observe"
    /\ round = MAX_REPEATS + 1
    /\ _wants_repeat(transcript)
    /\ LastCall.outcome \in {"accepted", "declined", "no_answer"}

\* The outcomes a session may end with.
TerminalOutcomes == {"accepted", "declined", "no_answer", "error", "failed"}

\* C9 (as stated): every session that is no longer running ended with one of
\* the terminal outcomes, within MAX_REPEATS + 1 rounds or
\* CALL_TIMEOUT_S / CALL_POLL_INTERVAL_S polls, and the loop looks only at
\* terminal outcomes.
C9_SessionEndsTerminal ==
    /\ \A i \in 1..Len(calls) :
          \/ calls[i].outcome \in TerminalOutcomes
          \/ /\ i = Len(calls)
             /\ calls[i].outcome = "pending"
             /\ pc \in {"poll", "record", "stream", "batch", "settle"}
    /\ round <= MAX_REPEATS + 1
    /\ polls * CALL_POLL_INTERVAL_S <= CALL_TIMEOUT_S
    /\ pc = "observe" => LastCall.outcome \in TerminalOutcomes

\* C10: a local session whose transcription raised on the streaming transport
\* and on the batch fallback ends FAILED with the transcription-error reason.
C10_TranscriptionFailureIsFailed ==
    (variant = "local" /\ pc = "observe" /\ stt.batch = "raised") =>
       /\ stt.streaming = "raised"
       /\ LastCall.outcome = "failed"
       /\ LastCall.decline_reason = "Transcription error"

\* Both transports raised and the session has returned.
C10_Witness ==
    /\ variant = "local"
    /\ pc = "observe"
    /\ stt.streaming = "raised"
    /\ stt.batch = "raised"
    /\ LastCall.outcome = "failed"

\* C11: a polling session makes at most CALL_TIMEOUT_S / CALL_POLL_INTERVAL_S
\* polls, elapsed being the polls made times the interval; it ends at the
\* ceiling with no_answer, and before the ceiling only on a poll that returned
\* a body; a poll that failed in transport leaves the session polling.
C11_PollCeiling ==
    /\ [](pc = "poll" =>
             /\ elapsed = polls * CALL_POLL_INTERVAL_S
             /\ polls * CALL_POLL_INTERVAL_S <= CALL_TIMEOUT_S
             /\ LastCall.outcome = "pending")
    /\ [][(pc = "poll" /\ pc' # "poll") =>
             IF elapsed >= CALL_TIMEOUT_S
             THEN pc' = "observe" /\ LastCall'.outcome = "no_answer"
             ELSE last_poll' = "json"]_vars
    /\ [][(pc = "poll" /\ elapsed < CALL_TIMEOUT_S /\ last_poll' = "http_error") =>
             (pc' = "poll" /\ polls' = polls + 1)]_vars

\* A session timed out although its last poll failed in transport.
C11_Witness ==
    /\ variant = "polling"
    /\ pc = "observe"
    /\ LastCall.outcome = "no_answer"
    /\ last_poll = "http_error"

\* C12 (as stated): a call whose initiation request failed, by an HTTP error or
\* by a response without a call id, has outcome error with the failure as its
\* decline reason, and the run goes on.
C12_InitiationFailureIsError ==
    \A i \in 1..Len(calls) :
       calls[i].decline_reason \in {"http_error", "KeyError: call_id"} =>
          /\ calls[i].outcome = "error"
          /\ pc # "raised"

\* The audit stream holds the outcome of call i.
OutcomeLogged(i) ==
    \E k \in 1..Len(audit) :
       audit[k] = Event("call:" \o calls[i].outcome, calls[i].driver_id)

\* C13 (as stated): once the loop has moved past a session that ended with a
\* terminal outcome, to the next candidate or to its return, the audit stream
\* holds that outcome.
C13_OutcomeLoggedBeforeMovingOn ==
    \A i \in 1..Len(calls) :
       (/\ calls[i].outcome \in TerminalOutcomes
        /\ i < Len(calls) \/ pc \in {"dispatch", "finish", "returned"})
          => OutcomeLogged(i)

\* The audit records that close an order: an assignment or a failure status.
FinalKinds ==
    { "assigned", "status:declined", "status:failed", "failed:no_active_drivers",
      "failed:no_eligible_drivers", "failed:no_sla_feasible_drivers",
      "failed:all_drivers_declined" }

\* The positions of the audit stream whose record's kind is in kinds.
AuditPositions(kinds) == {k \in 1..Len(audit) : audit[k].kind \in kinds}

\* The kinds of the call-outcome records.
CallKinds == {"call:" \o o : o \in TerminalOutcomes}

\* C14 (as stated): the audit stream of a run that has returned begins with the
\* order record, ends with its only final record, and holds one compliance
\* record per driver checked and one call record per session.
C14_AuditStreamIsComplete ==
    pc = "returned" =>
       /\ audit # <<>>
       /\ audit[1].kind = "order"
       /\ AuditPositions(FinalKinds) = {Len(audit)}
       /\ Cardinality(AuditPositions({"compliance"})) = Len(compliance_results)
       /\ Cardinality(AuditPositions(CallKinds)) = Len(calls)

\* The requests whose call session is between the start of a recording and its
\* completion.
MicHolders == {r \in DOMAIN runs : runs[r].pc = "recording"}

\* C15 (as stated): at any moment at most one call session holds the audio
\* input device, whatever requests the service is serving.
C15_OneSessionHoldsMicrophone == Cardinality(MicHolders) <= 1

\* C16 (as stated): a run works on one unchanging picture of the driver's
\* workload: what its ranking read from the store is what its compliance check
\* read, whatever the other runs did in between.
C16_RunsDoNotInterfere ==
    \A r \in DOMAIN runs :
       runs[r].km_ranking # -1 => runs[r].km_ranking = runs[r].km_compliance

\* Driver id has an eligible compliance result and a routing result that fits
\* the SLA.
PassedBothGates(id) ==
    /\ \E j \in 1..Len(compliance_results) :
          /\ compliance_results[j].driver_id = id
          /\ IF variant = "polling" THEN compliance_results[j].eligible
                                    ELSE compliance_results[j].is_compliant
    /\ \E j \in 1..Len(routing_results) :
          routing_results[j].driver_id = id /\ routing_results[j].fits_sla

\* The ranker has run: it produced a list, or the run returned at its gate.
RankingDone == ranked # <<>> \/ (pc = "returned" /\ FailedWith(3))

\* C17: the ranked list holds exactly the drivers of the pool that passed both
\* gates, each of them once; a driver without a routing result is not in it.
C17_RankedIffPassedBothGates ==
    RankingDone =>
       /\ Ids(ranked) = {id \in Ids(all_drivers) : PassedBothGates(id)}
       /\ Cardinality(Ids(ranked)) = Len(ranked)

\* A list was ranked from a pool of which one driver was eligible but had no
\* fitting route.
C17_Witness ==
    /\ Len(ranked) = 1
    /\ Len(eligible_drivers) = 2
    /\ Len(all_drivers) = 2

\* The place of driver id in the input list.
PositionIn(drivers, id) == CHOOSE i \in 1..Len(drivers) : drivers[i].driver_id = id

\* C18: in the ranked list the rank fields are 1..n in list order, the scores
\* do not increase along the list, and two candidates of equal score stand in
\* the order the input driver list has them.
C18_RankIsStableTotalOrder ==
    /\ \A i \in 1..Len(ranked) : ranked[i].rank = i
    /\ \A i, j \in 1..Len(ranked) :
          i < j =>
             /\ ranked[i].score >= ranked[j].score
             /\ ranked[i].score = ranked[j].score =>
                   PositionIn(all_drivers, ranked[i].driver_id)
                      < PositionIn(all_drivers, ranked[j].driver_id)

\* RankingEngine.rank ranked two candidates of equal score.
C18_Witness ==
    /\ variant = "polling"
    /\ Len(ranked) = 2
    /\ ranked[1].score = ranked[2].score
    /\ ranked[1].rank = 1 /\ ranked[2].rank = 2

\* The reasons a result of _check_driver must list, from its rule fields.
ViolatedP(v) ==
    (IF v.license_days_remaining >= LICENSE_EXPIRY_BUFFER_DAYS THEN {} ELSE {"license"})
    \cup (IF v.vehicle_match THEN {} ELSE {"vehicle"})
    \cup (IF v.km_budget_ok THEN {} ELSE {"km_budget"})
    \cup (IF v.shift_window_ok THEN {} ELSE {"shift"})

\* The same for a result of _check_driver_compliance_in_memory, from its checks.
ViolatedL(v) ==
    (IF v.license_valid THEN {} ELSE {"license"})
    \cup (IF v.vehicle_type_match THEN {} ELSE {"vehicle"})
    \cup (IF v.km_budget_available THEN {} ELSE {"km_budget"})
    \cup (IF v.hours_budget_available THEN {} ELSE {"hours_budget"})
    \cup (IF v.shift_window_covers_delivery THEN {} ELSE {"shift"})

\* The reasons a list holds.
Range(seq) == {seq[i] : i \in 1..Len(seq)}

\* C19: both eligibility filters evaluate every rule: the result is eligible
\* exactly when no rule is violated, and the reasons of a result that is not
\* eligible are the violated rules, one entry each.
C19_ReasonsAreTheViolatedRules ==
    /\ fout.fn = "_check_driver" =>
          /\ fout.value.eligible <=> ViolatedP(fout.value) = {}
          /\ Range(fout.value.failure_reasons) = ViolatedP(fout.value)
          /\ Len(fout.value.failure_reasons) = Cardinality(ViolatedP(fout.value))
    /\ fout.fn = "_check_driver_compliance_in_memory" =>
          /\ fout.value.is_compliant <=> ViolatedL(fout.value) = {}
          /\ ~fout.value.is_compliant =>
                /\ Range(fout.value.reasons) = ViolatedL(fout.value)
                /\ Len(fout.value.reasons) = Cardinality(ViolatedL(fout.value))

\* A driver was found to violate the license rule and the vehicle rule at once,
\* and no other.
C19_Witness ==
    /\ fout.fn = "_check_driver"
    /\ ~fout.value.eligible
    /\ fout.value.failure_reasons = <<"license", "vehicle">>
    /\ fout.value.km_budget_ok /\ fout.value.shift_window_ok

\* C20 (as stated): in both eligibility filters the license rule passes exactly
\* when the whole days to expiry are at least 14.
C20_LicenseRuleAtBuffer ==
    /\ fout.fn = "_check_driver" =>
          ("license" \notin Range(fout.value.failure_reasons)
              <=> fin.driver.license_days >= LICENSE_EXPIRY_BUFFER_DAYS)
    /\ fout.fn = "_check_driver_compliance_in_memory" =>
          (fout.value.license_valid
              <=> fin.driver.license_days >= LICENSE_EXPIRY_BUFFER_DAYS)

\* C21 (as stated): in both eligibility filters the shift rule passes exactly
\* when the shift contains the order's whole window; the shift is the driver's
\* own in compliance.py and the default shift, in hours, in compliance_agent.py.
C21_ShiftCoversWholeWindow ==
    /\ fout.fn = "_check_driver" =>
          (fout.value.shift_window_ok
              <=> /\ fin.driver.shift_start <= fin.order.pickup_by
                  /\ fin.driver.shift_end >= fin.order.deliver_by)
    /\ fout.fn = "_check_driver_compliance_in_memory" =>
          (fout.value.shift_window_covers_delivery
              <=> /\ shift_start_default * 60 <= fin.order.pickup_by
                  /\ shift_end_default * 60 >= fin.order.deliver_by)

\* The routing functions, and the input element of the driver of a result.
RoutingFns == {"compute_etas", "calculate_routes"}

\* C22 (as stated): every routing result has fits_sla true exactly when the
\* driver-to-pickup duration plus the pickup-to-dropoff duration is at most the
\* time from the computation to the order's deliver-by time, equality included,
\* whatever the length of the order's window.
C22_FitsSlaIsTimeToDeadline ==
    fout.fn \in RoutingFns =>
        \A i \in 1..Len(fout.value) :
            LET element == fin.elements[fout.value[i].driver_id]
            IN  fout.value[i].fits_sla
                    <=> element.duration + Leg2Element.duration
                            <= (fin.order.deliver_by - fin.order.now) * 60

\* The ids of the input drivers whose driver-to-pickup pair has status OK, in
\* input order.
RECURSIVE OkPairIds(_, _)
OkPairIds(drivers, elements) ==
    IF drivers = <<>> THEN <<>>
    ELSE (IF Head(elements).status = "OK" THEN <<Head(drivers).driver_id>> ELSE <<>>)
         \o OkPairIds(Tail(drivers), Tail(elements))

\* C23 (as stated): the routing results are, in input order, one per driver
\* whose driver-to-pickup pair has status OK, and none for the other drivers.
C23_ResultsAreTheOkPairs ==
    fout.fn \in RoutingFns =>
        [i \in 1..Len(fout.value) |-> fout.value[i].driver_id]
            = OkPairIds(fin.drivers, fin.elements)

\* The text has one of the keywords in it, whatever the case of its letters.
HasKeyword(t, kws) == \E kw \in kws : Contains(Lower(t), kw)

\* The text is empty or made of blanks only.
IsBlank(t) == \A i \in 1..Len(t) : t[i] = " "

\* C24: _parse_outcome classifies a non-blank transcript with an accept keyword
\* in it (in any case of letters) as accepted with no decline reason, also when a
\* decline keyword is in it too, and a transcript with a decline keyword and no
\* accept keyword as declined.
C24_AcceptTakesPrecedence ==
    fout.fn = "_parse_outcome" =>
        /\ (~IsBlank(fin.transcript) /\ HasKeyword(fin.transcript, ACCEPT_KEYWORDS))
              => fout.value = [outcome |-> "accepted", decline_reason |-> "None"]
        /\ (HasKeyword(fin.transcript, DECLINE_KEYWORDS)
                /\ ~HasKeyword(fin.transcript, ACCEPT_KEYWORDS))
              => fout.value.outcome = "declined"

\* A transcript with capital letters and both kinds of keyword was accepted.
C24_Witness ==
    /\ fout.fn = "_parse_outcome"
    /\ Lower(fin.transcript) # fin.transcript
    /\ HasKeyword(fin.transcript, ACCEPT_KEYWORDS)
    /\ HasKeyword(fin.transcript, DECLINE_KEYWORDS)
    /\ fout.value.outcome = "accepted"

\* The local session has settled on its final transcript.
SettledOnTranscript ==
    variant = "local" /\ pc = "observe" /\ ~TranscribeFailed(stt)

\* C25: a session whose final transcript is empty or blank ends declined with
\* reason "No response received", and one whose final transcript is not blank
\* and has neither an accept nor a decline keyword ends declined with reason
\* "No clear response received".
C25_SilenceAndUnclearAreDeclined ==
    SettledOnTranscript =>
        /\ IsBlank(transcript) =>
              /\ LastCall.outcome = "declined"
              /\ LastCall.decline_reason = "No response received"
        /\ (/\ ~IsBlank(transcript)
            /\ ~HasKeyword(transcript, ACCEPT_KEYWORDS)
            /\ ~HasKeyword(transcript, DECLINE_KEYWORDS)) =>
              /\ LastCall.outcome = "declined"
              /\ LastCall.decline_reason = "No clear response received"

\* A session settled on a transcript of blanks only.
C25_Witness ==
    /\ SettledOnTranscript
    /\ transcript # <<>> /\ IsBlank(transcript)
    /\ LastCall.decline_reason = "No response received"

RankingFns == {"rank", "rank_drivers"}

\* The three factors of a ranked driver, and the score the ranking gave.
EtaOf(id) == ById(fin.routing_results, id).eta_to_pickup_minutes

KmOf(id) ==
    IF fin.fn = "rank" THEN ById(fin.drivers, id).km_budget_remaining_today
    ELSE 300 - get_driver_workload_today(ById(fin.drivers, id), fin.db).km_today

LicenseOf(id) == ById(fin.drivers, id).license_days

ScoreOf(id) == ById(fout.value, id).score

\* C26: of two ranked drivers that differ in one factor only, the one with the
\* longer ETA to pickup never has the higher score, and the one with more km
\* budget or more days of license never has the lower score; with ETAs of 10
\* and 40 minutes and the other factors equal the 10-minute driver is first.
C26_ScoreIsMonotone ==
    fout.fn \in RankingFns =>
        \A i, j \in Ids(fin.drivers) :
            /\ (EtaOf(i) <= EtaOf(j) /\ KmOf(i) = KmOf(j) /\ LicenseOf(i) = LicenseOf(j))
                  => ScoreOf(i) >= ScoreOf(j)
            /\ (KmOf(i) <= KmOf(j) /\ EtaOf(i) = EtaOf(j) /\ LicenseOf(i) = LicenseOf(j))
                  => ScoreOf(i) <= ScoreOf(j)
            /\ (LicenseOf(i) <= LicenseOf(j) /\ EtaOf(i) = EtaOf(j) /\ KmOf(i) = KmOf(j))
                  => ScoreOf(i) <= ScoreOf(j)
            /\ (EtaOf(i) = 10 /\ EtaOf(j) = 40 /\ KmOf(i) = KmOf(j)
                    /\ LicenseOf(i) = LicenseOf(j))
                  => fout.value[1].driver_id = i

\* The second driver of the input, 10 minutes away, is ranked before the first,
\* 40 minutes away, the other factors being equal.
C26_Witness ==
    /\ fout.fn \in RankingFns
    /\ EtaOf(1) = 40 /\ EtaOf(2) = 10
    /\ KmOf(1) = KmOf(2) /\ LicenseOf(1) = LicenseOf(2)
    /\ fout.value[1].driver_id = 2

\* C27 (as stated): every score of a ranking lies between 0 and 100 points
\* (rank scores in hundredths of a point, rank_drivers in tenths).
C27_ScoreWithinZeroToHundred ==
    fout.fn \in RankingFns =>
        \A k \in 1..Len(fout.value) :
            /\ fout.value[k].score >= 0
            /\ fout.value[k].score <= (IF fout.fn = "rank" THEN 100 * 100 ELSE 100 * 10)

\* C28 (as stated): an order payload that misses required fields is answered
\* with a rejection (422 by create_order, 400 by order_intake) and nothing else,
\* and for it no audit record is written, no driver is evaluated and no session
\* is opened.
C28_MalformedOrderStartsNoRun ==
    fin.payload # "valid" =>
        /\ fout.fn # "none" =>
              fout.value = (IF fin.fn = "create_order" THEN 422 ELSE 400)
        /\ audit = <<>>
        /\ all_drivers = <<>>
        /\ compliance_results = <<>>
        /\ calls = <<>>

\* C29 (as stated): the DispatchResult that orchestrator_agent.py returns,
\* assigned or failed, counts as called the call sessions opened in the run and
\* as considered the active drivers evaluated.
C29_ResultCountsSessionsAndDrivers ==
    (L_IsLocal /\ result.status # "none") =>
        /\ result.drivers_called = Len(calls)
        /\ result.drivers_considered = Len(all_drivers)

\* The sessions that returned an outcome to the dispatch loop.
ReturnedCalls == {i \in 1..Len(calls) : calls[i].outcome \notin {"pending", "raised"}}

\* C30 (as stated): the outcome a call session returns to the dispatch loop is
\* one of accepted, declined, no_answer, error (failed), whatever the call
\* provider's status payload holds.
C30_ReturnedOutcomeIsTerminal ==
    \A i \in ReturnedCalls : calls[i].outcome \in TerminalOutcomes

\* C31 (as stated): when the streaming attempt of a round failed, at the
\* connection, while sending or while receiving, _transcribe has made a batch
\* attempt before the round is settled.
C31_StreamingFailureFallsBackToBatch ==
    (variant = "local" /\ pc = "settle" /\ stt.streaming \in {"raised", "recv_failed"})
        => stt.batch \in {"returned", "raised"}

\* The place of an audio event in the round, 0 when it did not happen.
AudioAt(e) ==
    IF \E i \in 1..Len(round_audio) : round_audio[i] = e
    THEN CHOOSE i \in 1..Len(round_audio) : round_audio[i] = e
    ELSE 0

\* C32 (as stated): when a round of the local session is at its transcription,
\* its capture started before its playback, and both its capture and its
\* playback have completed.
C32_TranscriptionAfterCaptureAndPlayback ==
    (variant = "local" /\ pc \in {"stream", "batch", "settle"}) =>
        /\ 0 < AudioAt("rec_start") /\ AudioAt("rec_start") < AudioAt("say_start")
        /\ AudioAt("rec_done") > 0
        /\ AudioAt("say_done") > 0

\* The unrounded score of the driver at a position of the ranking.
ExactAt(k) ==
    _score_exact(ById(fin.drivers, fout.value[k].driver_id),
                 ById(fin.routing_results, fout.value[k].driver_id))

\* C33 (as stated): RankingEngine.rank orders its candidates by their unrounded
\* scores, also when they round to the same two-decimal value: no candidate
\* stands before one with a higher unrounded score.
C33_OrderedByUnroundedScore ==
    fout.fn = "rank" =>
        \A i, j \in 1..Len(fout.value) : i < j => ExactAt(i) >= ExactAt(j)

\* C34 (as stated): a feasibility computation of routing.py or routing_agent.py
\* that comes to its end has issued exactly two queries to the routing
\* collaborator for a non-empty driver list, and none for an empty one.
C34_TwoRoutingQueries ==
    [][ (variant \in {"polling", "local"} /\ pc = "routing" /\ pc' # "raised")
            => queries' - queries = (IF Len(eligible_drivers) = 0 THEN 0 ELSE 2) ]_vars

\* process_order returned an assigned result.
ReturnedAssigned == pc = "returned" /\ result.status \in {"assigned", "driver_assigned"}

AcceptedCalls == {i \in 1..Len(calls) : calls[i].outcome = "accepted"}

AssignmentRecords == {k \in 1..Len(audit) : audit[k].kind = "assigned"}

\* C35: a run that returned has status assigned exactly when one of its call
\* sessions returned accepted; the assigned driver is then the driver of that
\* session, which is the last one opened and the only accepted one, and no run
\* writes more than one assignment record.
C35_AssignedIffAccepted ==
    /\ pc = "returned" => (ReturnedAssigned <=> AcceptedCalls # {})
    /\ ReturnedAssigned =>
          /\ AcceptedCalls = {Len(calls)}
          /\ result.assigned_driver_id = LastCall.driver_id
    /\ Cardinality(AssignmentRecords) <= 1

\* A run was assigned to the driver of its second session.
C35_Witness ==
    /\ ReturnedAssigned
    /\ Len(calls) = 2
    /\ calls[1].outcome # "accepted"
    /\ result.assigned_driver_id = calls[2].driver_id
    /\ Cardinality(AssignmentRecords) = 1

\* C36: in the polling build the calls_attempted of an assigned result is the
\* number of call sessions the run opened, which is the rank of the driver who
\* accepted.
C36_CallsAttemptedIsSessionsOpened ==
    (variant = "polling" /\ ReturnedAssigned) =>
        /\ result.drivers_called = Len(calls)
        /\ result.drivers_called = ById(ranked, result.assigned_driver_id).rank

\* A polling run with two ranked drivers was assigned at its first session.
C36_Witness ==
    /\ variant = "polling" /\ ReturnedAssigned
    /\ Len(ranked) = 2
    /\ Len(calls) = 1
    /\ result.drivers_called = 1

\* C37: a recording file of the local session exists only while its round is
\* being transcribed: none is left when a round ends with a repeat request,
\* and none when the session returns its outcome, parsed or failed.
C37_NoRecordingOutlivesItsRound ==
    variant = "local" =>
        /\ wav_files \in {0, 1}
        /\ wav_files = 1 => pc \in {"stream", "batch", "settle"}
        /\ pc \in {"record", "observe"} => wav_files = 0

\* A session returned the outcome failed after its transcription raised, and
\* its recording is gone.
C37_Witness ==
    /\ variant = "local" /\ pc = "observe"
    /\ round > 0 /\ TranscribeFailed(stt)
    /\ LastCall.outcome = "failed"
    /\ wav_files = 0

====
